---------------------------- MODULE Spec2Model ----------------------------
(***************************************************************************)
(* A model of the per-datatype replication core of qortoo-rs: the local    *)
(* operation / transaction discipline (MutableDatatype), the PushBuffer,   *)
(* the push-pull round (WiredDatatype, PullHandler), the event loop and   *)
(* the in-process loopback server (LocalDatatypeServer).                   *)
(*                                                                         *)
(* Memory sizes are counted in scaled units (one unit stands for the size  *)
(* of one operation); the order of the size constants of the program is    *)
(* kept: TRANSACTION_CONSTANT_SIZE < DEFAULT_MAX_TRANSMISSION_SIZE <       *)
(* max_mem_size_of_push_buffer.                                            *)
(***************************************************************************)
EXTENDS Integers, Sequences, FiniteSets, TLC

VARIABLES
    mutable,    \* cuid -> MutableDatatype (state, op_id, crdt, transaction, rollback, push_buffer, checkpoint)
    attr,       \* cuid -> Attribute (duid, is_readonly, type)
    manager,    \* the DatatypeManager of one client (key -> datatype) and its last call
    server,     \* the LocalDatatypeServer record of the one ResourceID
    wire,       \* cuid -> the push_pull round in flight (position, pushed pack, pulled pack, outcome)
    user,       \* cuid -> the user thread (alive or panicked, commits in commit order)
    loop,       \* the event loop of the realtime datatype (position, channels)
    writer,     \* the writer thread of the realtime datatype
    pbuf,       \* a MemoryPushBuffer driven through its own interface
    pbout,      \* the result of the last call on pbuf
    lastPush,   \* the pack last handed to the loopback server
    lastPull    \* the answer to it (with the server as it was before)

vars == <<mutable, attr, manager, server, wire, user, loop, writer, pbuf, pbout, lastPush, lastPull>>

-----------------------------------------------------------------------------
(* Bounds of the model *)

MaxCseq == 2        \* transactions the creating client c1 opens
MaxOps == 2         \* operations in one transaction of c1
MaxPeerCseq == 1    \* transactions the second client c2 opens
MaxPeerOps == 1     \* operations in one transaction of c2
MaxTagLen == 0      \* length of the tag of a transaction of c1 or c2
MaxDelta == 1       \* largest delta of an increase
MaxBufCseq == 3     \* cseqs of the transactions offered to the buffer on its own
MaxBufTagLen == 1   \* tag lengths of the transactions offered to the buffer on its own
MaxSrvCseq == 2     \* cseqs of the transactions pushed to the server on its own
MaxPullSeq == 2     \* checkpoint fields of the pulls handed to the pull handler on its own
MaxRtWrites == 3    \* writes of the writer thread of the realtime datatype
MaxBigTagLen == 3   \* length of the tag of a transaction of the client with large transactions
MaxPosts == 2       \* guaranteed PushTransaction events the caller thread posts
MaxStops == 2       \* calls of send_stop the caller thread makes

(* Program constants (scaled sizes) *)

TRANSACTION_CONSTANT_SIZE == 1
OperationSize == 1
DEFAULT_MAX_TRANSMISSION_SIZE == 4
MaxMemSizeOfPushBuffer == 8

Clients == {"c1", "c2"}
Duids == {"d1", "d2"}
Deltas == 1..MaxDelta
TagLens == 0..MaxTagLen
TxBound(c) == IF c = "c1" THEN MaxCseq ELSE MaxPeerCseq
OpBound(c) == IF c = "c1" THEN MaxOps ELSE MaxPeerOps
None == [none |-> TRUE]

DatatypeStates ==
    {"DueToCreate", "DueToSubscribe", "DueToSubscribeOrCreate", "Subscribed",
     "DueToUnsubscribe", "DueToDelete", "Disabled"}

Max(a, b) == IF a >= b THEN a ELSE b

-----------------------------------------------------------------------------
(* Operations and transactions *)

CounterIncrease(delta) == [kind |-> "CounterIncrease", delta |-> delta, lamport |-> 0]
Delay4Test(success) == [kind |-> "Delay4Test", success |-> success, lamport |-> 0]

LocalOps == {CounterIncrease(d) : d \in Deltas} \cup {Delay4Test(FALSE)}

RECURSIVE OpsSize(_)
OpsSize(ops) == IF ops = <<>> THEN 0 ELSE OperationSize + OpsSize(Tail(ops))

\* MemoryMeasurable for Transaction
size(tx) == TRANSACTION_CONSTANT_SIZE + tx.tag + OpsSize(tx.operations)

RECURSIVE SumSize(_)
SumSize(txs) == IF txs = <<>> THEN 0 ELSE size(Head(txs)) + SumSize(Tail(txs))

RECURSIVE SumDelta(_)
SumDelta(ops) ==
    IF ops = <<>> THEN 0
    ELSE (IF Head(ops).kind = "CounterIncrease" THEN Head(ops).delta ELSE 0) + SumDelta(Tail(ops))

RECURSIVE SumTxDelta(_)
SumTxDelta(txs) == IF txs = <<>> THEN 0 ELSE SumDelta(Head(txs).operations) + SumTxDelta(Tail(txs))

-----------------------------------------------------------------------------
(* OperationId *)

NewOperationId == [cseq |-> 0, lamport |-> 0]
next_cseq(op_id) == [cseq |-> op_id.cseq + 1, lamport |-> op_id.lamport + 1]
\* prev_cseq that takes back the cseq and leaves the lamport where it is
prev_cseq_keep_lamport(op_id) == [op_id EXCEPT !.cseq = @ - 1]

prev_cseq(op_id) == [cseq |-> op_id.cseq - 1, lamport |-> op_id.lamport - 1]
next_lamport(op_id) == [op_id EXCEPT !.lamport = @ + 1]
prev_lamport(op_id) == [op_id EXCEPT !.lamport = @ - 1]
op_id_sync(op_id, other) == [cseq |-> other.cseq, lamport |-> other.lamport]

\* Transaction::new: the transaction takes the next cseq of the client
NewTransaction(cuid, op_id) ==
    [cuid |-> cuid, cseq |-> next_cseq(op_id).cseq, sseq |-> 0, tag |-> 0, operations |-> <<>>]

get_op_id(tx) == [cseq |-> tx.cseq, lamport |-> 0]

-----------------------------------------------------------------------------
(* MemoryPushBuffer *)

NewPushBuffer == [transaction |-> <<>>, mem_size |-> 0, first_cseq |-> 0, last_cseq |-> 0]

\* enque without the check of the sequence
enque_any_cseq(pb, tx) ==
    IF pb.mem_size + size(tx) > MaxMemSizeOfPushBuffer
    THEN [res |-> "ExceedMaxMemSize", pb |-> pb]
    ELSE [res |-> "Ok",
          pb |-> [transaction |-> Append(pb.transaction, tx),
                  mem_size |-> pb.mem_size + size(tx),
                  first_cseq |-> IF pb.first_cseq = 0 THEN tx.cseq ELSE pb.first_cseq,
                  last_cseq |-> tx.cseq]]

\* enque without the check of the memory limit
enque_any_size(pb, tx) ==
    IF pb.last_cseq # 0 /\ pb.last_cseq + 1 # tx.cseq
    THEN [res |-> "NonSequentialCseq", pb |-> pb]
    ELSE [res |-> "Ok",
          pb |-> [transaction |-> Append(pb.transaction, tx),
                  mem_size |-> pb.mem_size + size(tx),
                  first_cseq |-> IF pb.first_cseq = 0 THEN tx.cseq ELSE pb.first_cseq,
                  last_cseq |-> tx.cseq]]

enque(pb, tx) ==
    IF pb.last_cseq # 0 /\ pb.last_cseq + 1 # tx.cseq
    THEN [res |-> "NonSequentialCseq", pb |-> pb]
    ELSE IF pb.mem_size + size(tx) > MaxMemSizeOfPushBuffer
    THEN [res |-> "ExceedMaxMemSize", pb |-> pb]
    ELSE [res |-> "Ok",
          pb |-> [transaction |-> Append(pb.transaction, tx),
                  mem_size |-> pb.mem_size + size(tx),
                  first_cseq |-> IF pb.first_cseq = 0 THEN tx.cseq ELSE pb.first_cseq,
                  last_cseq |-> tx.cseq]]

\* the loop of get_after: from index i on, as long as the running total fits
RECURSIVE get_after_loop(_, _, _, _)
get_after_loop(txs, i, total_size, max_mem_size) ==
    IF i > Len(txs) THEN <<>>
    ELSE IF total_size + size(txs[i]) > max_mem_size THEN <<>>
    ELSE <<txs[i]>> \o get_after_loop(txs, i + 1, total_size + size(txs[i]), max_mem_size)

\* get_after that starts at the front of the buffer whatever cseq is asked
get_after_from_first(pb, cseq, max_mem_size) ==
    IF cseq = 0 \/ cseq < pb.first_cseq
    THEN [res |-> "FailToGetAfter", txs |-> <<>>]
    ELSE IF Len(pb.transaction) <= cseq - pb.first_cseq
    THEN [res |-> "FailToGetAfter", txs |-> <<>>]
    ELSE [res |-> "Ok", txs |-> get_after_loop(pb.transaction, 1, 0, max_mem_size)]

\* get_after that answers a cseq past the last transaction with an empty result
get_after_empty_ok(pb, cseq, max_mem_size) ==
    IF cseq = 0 \/ cseq < pb.first_cseq
    THEN [res |-> "FailToGetAfter", txs |-> <<>>]
    ELSE IF Len(pb.transaction) <= cseq - pb.first_cseq
    THEN [res |-> "Ok", txs |-> <<>>]
    ELSE [res |-> "Ok",
          txs |-> get_after_loop(pb.transaction, (cseq - pb.first_cseq) + 1, 0, max_mem_size)]

get_after(pb, cseq, max_mem_size) ==
    IF cseq = 0 \/ cseq < pb.first_cseq
    THEN [res |-> "FailToGetAfter", txs |-> <<>>]
    ELSE IF Len(pb.transaction) <= cseq - pb.first_cseq
    THEN [res |-> "FailToGetAfter", txs |-> <<>>]
    ELSE [res |-> "Ok",
          txs |-> get_after_loop(pb.transaction, (cseq - pb.first_cseq) + 1, 0, max_mem_size)]

\* need_to_deque that spares the transaction whose cseq equals the bound
need_to_deque_strict(txs, cseq) == txs # <<>> /\ Head(txs).cseq < cseq

need_to_deque(txs, cseq) == txs # <<>> /\ Head(txs).cseq <= cseq

\* the loop of deque: pop the front while its cseq is at most upto_cseq
RECURSIVE deque_loop(_, _, _)
deque_loop(pb, upto_cseq, ret) ==
    IF ~need_to_deque(pb.transaction, upto_cseq) THEN [ret |-> ret, pb |-> pb]
    ELSE LET tx == Head(pb.transaction)
             rest == Tail(pb.transaction)
         IN deque_loop([transaction |-> rest,
                        mem_size |-> pb.mem_size - size(tx),
                        first_cseq |-> IF rest # <<>> THEN Head(rest).cseq ELSE 0,
                        last_cseq |-> IF rest # <<>> THEN pb.last_cseq ELSE 0],
                       upto_cseq, Append(ret, tx))

deque(pb, upto_cseq) ==
    IF upto_cseq < pb.first_cseq THEN [ret |-> <<>>, pb |-> pb]
    ELSE IF upto_cseq > pb.last_cseq THEN [ret |-> pb.transaction, pb |-> NewPushBuffer]
    ELSE deque_loop(pb, upto_cseq, <<>>)

-----------------------------------------------------------------------------
(* CheckPoint *)

NewCheckPoint(sseq, cseq) == [sseq |-> sseq, cseq |-> cseq]

\* CheckPoint::check_with: the component-wise maximum
check_with(cp, other) == [sseq |-> Max(cp.sseq, other.sseq), cseq |-> Max(cp.cseq, other.cseq)]

-----------------------------------------------------------------------------
(* PushPullPack *)

ServerError(kind, reason) == [kind |-> kind, reason |-> reason]

NewPushPullPack(cuid, at, state) ==
    [cuid |-> cuid, duid |-> at.duid, type |-> at.type, state |-> state,
     checkpoint |-> NewCheckPoint(0, 0), safe_sseq |-> 0, transactions |-> <<>>,
     is_readonly |-> at.is_readonly, has_snapshot |-> FALSE,
     snapshot_transaction |-> None, error |-> None]

\* checkpointing that keeps the cseq of the checkpoint whatever the pack carries
checkpointing_keep_cseq(ppp, cp, safe_sseq) ==
    [ppp EXCEPT !.checkpoint = [cseq |-> cp.cseq, sseq |-> cp.sseq], !.safe_sseq = safe_sseq]

checkpointing(ppp, cp, safe_sseq) ==
    [ppp EXCEPT !.checkpoint =
                    [cseq |-> IF ppp.transactions # <<>>
                              THEN ppp.transactions[Len(ppp.transactions)].cseq
                              ELSE cp.cseq,
                     sseq |-> cp.sseq],
                !.safe_sseq = safe_sseq]

get_pulled_stub(ppp) ==
    [ppp EXCEPT !.checkpoint = NewCheckPoint(0, 0), !.transactions = <<>>,
                !.has_snapshot = FALSE, !.snapshot_transaction = None, !.error = None]

-----------------------------------------------------------------------------
(* LocalDatatypeServer *)

\* LocalDatatypeServer::new, for the attribute of the first datatype registered
NewLocalDatatypeServer(cuid, at) ==
    [wired_map |-> {}, type |-> at.type, duid |-> at.duid, created |-> FALSE,
     creator |-> cuid, sseq |-> 0, cseq_map |-> <<>>, history |-> <<>>]

insert_client_item(srv, cuid) == [srv EXCEPT !.wired_map = @ \cup {cuid}]

\* the per-client checkpoint of the server: an absent entry is inserted as (0, 0)
ClientCp(srv, cuid) ==
    IF cuid \in DOMAIN srv.cseq_map THEN srv.cseq_map[cuid] ELSE NewCheckPoint(0, 0)

SetClientCp(cseq_map, cuid, cp) ==
    [c \in (DOMAIN cseq_map) \cup {cuid} |-> IF c = cuid THEN cp ELSE cseq_map[c]]

\* push_transactions without the comparison with the client's checkpoint
RECURSIVE push_transactions_loop_all(_, _, _, _)
push_transactions_loop_all(txs, i, acc, cseq) ==
    IF i > Len(txs) THEN [history |-> acc.history, sseq |-> acc.sseq, cseq |-> cseq]
    ELSE push_transactions_loop_all(txs, i + 1,
                                    [history |-> Append(acc.history, txs[i]), sseq |-> acc.sseq + 1],
                                    txs[i].cseq)

\* the loop of push_transactions over the pushed transactions, from index i on
RECURSIVE push_transactions_loop(_, _, _, _)
push_transactions_loop(txs, i, acc, cseq) ==
    \* acc: [history, sseq], cseq: client_cp.cseq
    IF i > Len(txs) THEN [history |-> acc.history, sseq |-> acc.sseq, cseq |-> cseq]
    ELSE IF txs[i].cseq <= cseq THEN push_transactions_loop(txs, i + 1, acc, cseq)
    ELSE push_transactions_loop(txs, i + 1,
                                [history |-> Append(acc.history, txs[i]), sseq |-> acc.sseq + 1],
                                txs[i].cseq)

push_transactions(srv, pushed) ==
    LET r == push_transactions_loop(pushed.transactions, 1,
                                    [history |-> srv.history, sseq |-> srv.sseq],
                                    ClientCp(srv, pushed.cuid).cseq)
    IN [srv |-> [srv EXCEPT !.history = r.history, !.sseq = r.sseq,
                            !.cseq_map = SetClientCp(@, pushed.cuid, NewCheckPoint(r.sseq, r.cseq))],
        cseq |-> r.cseq]

\* process_due_to_create without the refusal of a readonly client
process_due_to_create_any(srv, pushed) ==
    LET pulled == get_pulled_stub(pushed) IN
    IF srv.created /\ srv.duid # pushed.duid
    THEN [srv |-> srv, err |-> "none",
          pulled |-> [pulled EXCEPT !.error = ServerError("FailedToCreate", "already exist")]]
    ELSE LET r == push_transactions([srv EXCEPT !.created = TRUE, !.creator = pushed.cuid,
                                                !.duid = pushed.duid], pushed)
         IN [srv |-> r.srv, err |-> "none",
             pulled |-> [pulled EXCEPT !.state = "DueToCreate",
                                       !.checkpoint = NewCheckPoint(r.srv.sseq, r.cseq)]]

\* process_due_to_create without the refusal of a record created under another duid
process_due_to_create_overwrite(srv, pushed) ==
    LET pulled == get_pulled_stub(pushed) IN
    IF pulled.is_readonly
    THEN [srv |-> srv, err |-> "none",
          pulled |-> [pulled EXCEPT !.error =
                          ServerError("FailedToCreate", "readonly client cannot create datatype")]]
    ELSE LET r == push_transactions([srv EXCEPT !.created = TRUE, !.creator = pushed.cuid,
                                                !.duid = pushed.duid], pushed)
         IN [srv |-> r.srv, err |-> "none",
             pulled |-> [pulled EXCEPT !.state = "DueToCreate",
                                       !.checkpoint = NewCheckPoint(r.srv.sseq, r.cseq)]]

\* process_due_to_create that stores the transactions of a push it refuses
process_due_to_create_store_refused(srv, pushed) ==
    LET pulled == get_pulled_stub(pushed) IN
    IF srv.created /\ srv.duid # pushed.duid
    THEN [srv |-> push_transactions(srv, pushed).srv, err |-> "none",
          pulled |-> [pulled EXCEPT !.error = ServerError("FailedToCreate", "already exist")]]
    ELSE IF pulled.is_readonly
    THEN [srv |-> srv, err |-> "none",
          pulled |-> [pulled EXCEPT !.error =
                          ServerError("FailedToCreate", "readonly client cannot create datatype")]]
    ELSE LET r == push_transactions([srv EXCEPT !.created = TRUE, !.creator = pushed.cuid,
                                                !.duid = pushed.duid], pushed)
         IN [srv |-> r.srv, err |-> "none",
             pulled |-> [pulled EXCEPT !.state = "DueToCreate",
                                       !.checkpoint = NewCheckPoint(r.srv.sseq, r.cseq)]]

process_due_to_create(srv, pushed) ==
    LET pulled == get_pulled_stub(pushed) IN
    IF srv.created /\ srv.duid # pushed.duid
    THEN [srv |-> srv, err |-> "none",
          pulled |-> [pulled EXCEPT !.error = ServerError("FailedToCreate", "already exist")]]
    ELSE IF pulled.is_readonly
    THEN [srv |-> srv, err |-> "none",
          pulled |-> [pulled EXCEPT !.error =
                          ServerError("FailedToCreate", "readonly client cannot create datatype")]]
    ELSE LET r == push_transactions([srv EXCEPT !.created = TRUE, !.creator = pushed.cuid,
                                                !.duid = pushed.duid], pushed)
         IN [srv |-> r.srv, err |-> "none",
             pulled |-> [pulled EXCEPT !.state = "DueToCreate",
                                       !.checkpoint = NewCheckPoint(r.srv.sseq, r.cseq)]]

\* WiredDatatype::get_subscribe_snapshot of the datatype m: one synthetic
\* transaction holding a snapshot operation, stamped with m's checkpoint.sseq
new_snapshot_operation(m) == [kind |-> "Snapshot", value |-> m.crdt, lamport |-> 0]

get_subscribe_snapshot(cuid, m) ==
    [cuid |-> cuid, cseq |-> 0, sseq |-> m.checkpoint.sseq, tag |-> 0,
     operations |-> <<new_snapshot_operation(m)>>]

\* process_due_to_subscribe that looks at the pushed transactions first
process_due_to_subscribe_tx_first(srv, pushed, mut) ==
    LET pulled == get_pulled_stub(pushed) IN
    IF pushed.transactions # <<>>
    THEN [srv |-> srv, err |-> "none",
          pulled |-> [pulled EXCEPT !.error =
                          ServerError("IllegalPushRequest", "cannot push transactions when subscribing")]]
    ELSE IF ~srv.created
    THEN [srv |-> srv, err |-> "none",
          pulled |-> [pulled EXCEPT !.error = ServerError("FailedToSubscribe", "not exists")]]
    ELSE IF srv.type # pushed.type
    THEN [srv |-> srv, err |-> "none",
          pulled |-> [pulled EXCEPT !.error = ServerError("FailedToSubscribe", "mismatched types")]]
    ELSE IF srv.creator \notin srv.wired_map
    THEN [srv |-> srv, err |-> "ResourceNotFound", pulled |-> None]
    ELSE LET tx == get_subscribe_snapshot(srv.creator, mut[srv.creator])
         IN [srv |-> srv, err |-> "none",
             pulled |-> [pulled EXCEPT !.duid = srv.duid,
                                       !.checkpoint = [@ EXCEPT !.sseq = tx.sseq],
                                       !.snapshot_transaction = tx]]

\* mut: the datatypes registered at the server (cuid -> MutableDatatype)
process_due_to_subscribe(srv, pushed, mut) ==
    LET pulled == get_pulled_stub(pushed) IN
    IF ~srv.created
    THEN [srv |-> srv, err |-> "none",
          pulled |-> [pulled EXCEPT !.error = ServerError("FailedToSubscribe", "not exists")]]
    ELSE IF srv.type # pushed.type
    THEN [srv |-> srv, err |-> "none",
          pulled |-> [pulled EXCEPT !.error = ServerError("FailedToSubscribe", "mismatched types")]]
    ELSE IF pushed.transactions # <<>>
    THEN [srv |-> srv, err |-> "none",
          pulled |-> [pulled EXCEPT !.error =
                          ServerError("IllegalPushRequest", "cannot push transactions when subscribing")]]
    ELSE IF srv.creator \notin srv.wired_map
    THEN [srv |-> srv, err |-> "ResourceNotFound", pulled |-> None]
    ELSE LET tx == get_subscribe_snapshot(srv.creator, mut[srv.creator])
         IN [srv |-> srv, err |-> "none",
             pulled |-> [pulled EXCEPT !.duid = srv.duid,
                                       !.checkpoint = [@ EXCEPT !.sseq = tx.sseq],
                                       !.snapshot_transaction = tx]]

\* LocalConnectivity::push_and_pull; every other lifecycle state is todo!()
LocalPushAndPull(srv, pushed, mut) ==
    IF pushed.state = "DueToCreate" THEN process_due_to_create(srv, pushed)
    ELSE IF pushed.state = "DueToSubscribe" THEN process_due_to_subscribe(srv, pushed, mut)
    ELSE [srv |-> srv, err |-> "panic", pulled |-> None]

-----------------------------------------------------------------------------
(* Crdt (Counter) *)

\* Crdt::execute_local_operation: a counter applies an increase and rejects
\* an operation that fails (Delay4Test with success = false)
crdt_execute_local_operation(crdt, op) ==
    IF op.kind = "CounterIncrease" THEN [ok |-> TRUE, crdt |-> crdt + op.delta]
    ELSE IF op.kind = "Delay4Test" /\ op.success THEN [ok |-> TRUE, crdt |-> crdt]
    ELSE [ok |-> FALSE, crdt |-> crdt]

-----------------------------------------------------------------------------
(* MutableDatatype *)

NewRollback(crdt, state, op_id) == [shadow_crdt |-> crdt, op_id |-> op_id, state |-> state]

NewMutableDatatype(state) ==
    [state |-> state, op_id |-> NewOperationId, crdt |-> 0, transaction |-> None,
     rollback |-> NewRollback(0, state, NewOperationId),
     push_buffer |-> NewPushBuffer, checkpoint |-> NewCheckPoint(0, 0)]

\* is_read_writable that accepts DueToSubscribe as writable
is_read_writable_all(state) ==
    state \in {"DueToCreate", "DueToSubscribe", "DueToSubscribeOrCreate", "Subscribed"}

is_read_writable(state) == state \in {"DueToCreate", "DueToSubscribeOrCreate", "Subscribed"}

\* TransactionalDatatype::check_writable
check_writable(m, at) == is_read_writable(m.state) /\ ~at.is_readonly

\* execute_local_operation that does not give the cseq back on a rejection
execute_local_operation_keep_cseq(m, cuid, op) ==
    LET is_new_tx == m.transaction = None
        tx0 == IF is_new_tx THEN NewTransaction(cuid, m.op_id) ELSE m.transaction
        id0 == IF is_new_tx THEN next_cseq(m.op_id) ELSE m.op_id
        id1 == next_lamport(id0)
        stamped == [op EXCEPT !.lamport = id1.lamport]
        result == crdt_execute_local_operation(m.crdt, stamped)
    IN IF result.ok
       THEN [ok |-> TRUE,
             m |-> [m EXCEPT !.op_id = id1, !.crdt = result.crdt,
                             !.transaction = [tx0 EXCEPT !.operations = Append(@, stamped)]]]
       ELSE [ok |-> FALSE,
             m |-> [m EXCEPT !.op_id = prev_lamport(id1),
                             !.transaction = IF is_new_tx THEN None ELSE tx0]]

execute_local_operation(m, cuid, op) ==
    LET is_new_tx == m.transaction = None
        tx0 == IF is_new_tx THEN NewTransaction(cuid, m.op_id) ELSE m.transaction
        id0 == IF is_new_tx THEN next_cseq(m.op_id) ELSE m.op_id
        id1 == next_lamport(id0)
        stamped == [op EXCEPT !.lamport = id1.lamport]
        result == crdt_execute_local_operation(m.crdt, stamped)
    IN IF result.ok
       THEN [ok |-> TRUE,
             m |-> [m EXCEPT !.op_id = id1, !.crdt = result.crdt,
                             !.transaction = [tx0 EXCEPT !.operations = Append(@, stamped)]]]
       ELSE [ok |-> FALSE,
             m |-> [m EXCEPT !.op_id = prev_lamport(IF is_new_tx THEN prev_cseq(id1) ELSE id1),
                             !.transaction = IF is_new_tx THEN None ELSE tx0]]

\* replay_local_operation over the operations of one transaction, from index i on
RECURSIVE replay_operations(_, _, _, _)
replay_operations(st, tx, ops, i) ==
    \* st: [crdt, op_id]
    IF i > Len(ops) THEN st
    ELSE replay_operations(
             [crdt |-> crdt_execute_local_operation(st.crdt, ops[i]).crdt,
              op_id |-> op_id_sync(st.op_id, [get_op_id(tx) EXCEPT !.lamport = ops[i].lamport])],
             tx, ops, i + 1)

RECURSIVE replay_transactions(_, _, _, _)
replay_transactions(st, cuid, txs, i) ==
    IF i > Len(txs) THEN st
    ELSE replay_transactions(
             IF txs[i].cuid = cuid THEN replay_operations(st, txs[i], txs[i].operations, 1) ELSE st,
             cuid, txs, i + 1)

replay_push_buffer(m, cuid) ==
    LET st == replay_transactions([crdt |-> m.crdt, op_id |-> m.op_id], cuid,
                                  m.push_buffer.transaction, 1)
    IN [m EXCEPT !.crdt = st.crdt, !.op_id = st.op_id]

do_rollback(m, cuid) ==
    replay_push_buffer([m EXCEPT !.op_id = m.rollback.op_id, !.state = m.rollback.state,
                                 !.crdt = m.rollback.shadow_crdt], cuid)

\* end_transaction; res: "committed" (true), "none" (false), "rollback", or the
\* "panic" of todo!() / unreachable!() when the buffer refuses the transaction
end_transaction(m, cuid, tag, committed) ==
    IF committed
    THEN IF m.transaction # None
         THEN LET tx == [m.transaction EXCEPT !.tag = tag]
                  taken == [m EXCEPT !.transaction = None]
                  r == IF tx.cuid = cuid THEN enque(m.push_buffer, tx)
                       ELSE [res |-> "Ok", pb |-> m.push_buffer]
              IN IF r.res = "Ok"
                 THEN [res |-> "committed", m |-> [taken EXCEPT !.push_buffer = r.pb], tx |-> tx]
                 ELSE [res |-> "panic", m |-> taken, tx |-> tx]
         ELSE [res |-> "none", m |-> m, tx |-> None]
    ELSE [res |-> "rollback", m |-> do_rollback(m, cuid), tx |-> None]

need_push(m) ==
    \/ m.state = "DueToCreate"
    \/ m.state = "DueToSubscribe"
    \/ m.state = "DueToSubscribeOrCreate"
    \/ m.push_buffer.last_cseq > m.checkpoint.cseq

create_push_pull_pack(m, cuid, at) ==
    LET got == get_after(m.push_buffer, m.checkpoint.cseq + 1, DEFAULT_MAX_TRANSMISSION_SIZE)
    IN IF got.res # "Ok" THEN [res |-> got.res, ppp |-> None]
       ELSE [res |-> "Ok",
             ppp |-> checkpointing([NewPushPullPack(cuid, at, m.state) EXCEPT !.transactions = got.txs],
                                   m.checkpoint, 0)]

-----------------------------------------------------------------------------
(* PullHandler *)

\* the match on old_state that never moves to Subscribed
new_state_keep(old_state, pulled_state) == old_state

\* the match on old_state that subscribes whatever state was pulled
new_state_eager(old_state, pulled_state) ==
    IF old_state \in {"DueToCreate", "DueToSubscribe", "DueToSubscribeOrCreate"}
    THEN "Subscribed" ELSE old_state

\* the match on old_state of handle_error_and_datatype_state
new_state(old_state, pulled_state) ==
    IF old_state = "DueToCreate"
    THEN (IF pulled_state = "DueToCreate" THEN "Subscribed" ELSE old_state)
    ELSE IF old_state = "DueToSubscribe"
    THEN (IF pulled_state = "DueToSubscribe" THEN "Subscribed" ELSE old_state)
    ELSE IF old_state = "DueToSubscribeOrCreate"
    THEN (IF pulled_state \in {"DueToCreate", "DueToSubscribe"} THEN "Subscribed" ELSE old_state)
    ELSE old_state

\* the error stage that lets IllegalPushRequest fall through to the match
handle_error_fall_through(old_state, pulled) ==
    IF pulled.error # None /\ pulled.error.kind = "FailedToSubscribe"
    THEN [res |-> "panic", new_state |-> old_state]
    ELSE [res |-> "Ok", new_state |-> new_state(old_state, pulled.state)]

\* res: "Ok", "FailedAndAbort", or the "panic" of todo!() on FailedToSubscribe
handle_error_and_datatype_state(old_state, pulled) ==
    IF pulled.error # None /\ pulled.error.kind = "IllegalPushRequest"
    THEN [res |-> "FailedAndAbort", new_state |-> old_state]
    ELSE IF pulled.error # None /\ pulled.error.kind = "FailedToSubscribe"
    THEN [res |-> "panic", new_state |-> old_state]
    ELSE [res |-> "Ok", new_state |-> new_state(old_state, pulled.state)]

\* sync_checkpoint that takes the pulled checkpoint as it is
sync_checkpoint_assign(cp, pulled) == pulled.checkpoint

sync_checkpoint(cp, pulled) == check_with(cp, pulled.checkpoint)

wrap_up(m, old_state, new) == IF old_state # new THEN [m EXCEPT !.state = new] ELSE m

\* PullHandler::apply
apply(m, pulled) ==
    LET h == handle_error_and_datatype_state(m.state, pulled)
    IN IF h.res # "Ok" THEN [res |-> h.res, m |-> m]
       ELSE [res |-> "Ok",
             m |-> wrap_up([m EXCEPT !.checkpoint = sync_checkpoint(m.checkpoint, pulled)],
                           m.state, h.new_state)]

-----------------------------------------------------------------------------
(* DatatypeManager *)

Keys == {"k1", "k2"}
DataTypes == {"Counter", "Variable", "Map"}
\* the states a DatatypeBuilder hands to the manager
BuilderStates == {"DueToCreate", "DueToSubscribe", "DueToSubscribeOrCreate"}

\* DatatypeManager::new: no datatype under any key; no call made yet
NewDatatypeManager == [datatypes |-> [k \in Keys |-> None], cores |-> 0, last |-> None]

\* Entry::Occupied that is never taken
is_occupied_never(datatypes, key) == FALSE

\* the match on self.datatypes.entry(key)
is_occupied(datatypes, key) == datatypes[key] # None

\* the comparison with the existing datatype that leaves its state out
is_incompatible_by_type(existing, type, state) == existing.type # type

\* existing.get_type() != type || existing.get_state() != state
is_incompatible(existing, type, state) ==
    existing.type # type \/ existing.state # state

\* what DatatypeSet::new yields where it reaches todo!()
Unimplemented == [todo |-> TRUE]

\* DatatypeSet::new: the datatype of a new TransactionalDatatype (core is the
\* identity of the Arc every clone of the handle shares); todo!() for a type
\* other than Counter
DatatypeSet_new(type, key, state, is_readonly, core) ==
    IF type = "Counter"
    THEN [core |-> core, type |-> type, key |-> key, state |-> state, is_readonly |-> is_readonly]
    ELSE Unimplemented

\* DatatypeManager::subscribe_or_create_datatype: the result and the manager after it
subscribe_or_create_datatype(m, key, type, state, is_readonly) ==
    IF is_occupied(m.datatypes, key)
    THEN IF is_incompatible(m.datatypes[key], type, state)
         THEN [res |-> "FailedToSubscribeOrCreateDatatype", dt |-> None, m |-> m]
         ELSE [res |-> "Ok", dt |-> m.datatypes[key], m |-> m]
    ELSE LET dt == DatatypeSet_new(type, key, state, is_readonly, m.cores + 1) IN
         IF dt = Unimplemented
         THEN [res |-> "panic", dt |-> None, m |-> m]
         ELSE [res |-> "Ok", dt |-> dt,
               m |-> [m EXCEPT !.datatypes[key] = dt, !.cores = @ + 1]]

-----------------------------------------------------------------------------
(* Values of the variables a specification does not use *)

\* wire: besides the round in flight, the record keeps the packs of the round
\* that ended last, the push buffer's last_cseq and the checkpoint read when
\* the pack was built, and whether the server record was created by then
IdleWire == [pc |-> "idle", pushing |-> None, pulled |-> None, result |-> "none", base |-> 0,
             cp |-> NewCheckPoint(0, 0), created |-> FALSE]
\* user: besides the liveness of the thread, the record keeps the outcome of
\* its last call, the cseqs it committed in commit order, the value right
\* after its last commit, the push buffer as it was when its current
\* transaction began, the number of operations its last rollback undid, and
\* the number of operations the transaction body running (or ended last)
\* has executed
IdleUser == [alive |-> TRUE, last |-> "none", commits |-> <<>>, committed_value |-> 0,
             pb_at_begin |-> NewPushBuffer, undone |-> 0, own |-> 0]

\* a transaction body of the user thread is running (it has called an operation)
InBody(c) == user[c].last \in {"executed", "FailedToExecuteOperation"}
IdleLoop == [pc |-> "off"]
IdleWriter == [pc |-> "off"]
CounterAttr(duid, is_readonly) == [duid |-> duid, is_readonly |-> is_readonly, type |-> "Counter"]

NoClients ==
    /\ mutable = [c \in Clients |-> NewMutableDatatype("DueToCreate")]
    /\ attr = [c \in Clients |-> CounterAttr(IF c = "c1" THEN "d1" ELSE "d2", FALSE)]
    /\ wire = [c \in Clients |-> IdleWire]
    /\ user = [c \in Clients |-> IdleUser]
NoServer ==
    /\ server = NewLocalDatatypeServer("c1", CounterAttr("d1", FALSE))
    /\ lastPush = None
    /\ lastPull = None
NoLoop == loop = IdleLoop /\ writer = IdleWriter
NoBuffer == pbuf = NewPushBuffer /\ pbout = None
NoManager == manager = NewDatatypeManager

-----------------------------------------------------------------------------
(* Spec: two clients of one key, in manual mode, against the loopback       *)
(* server.  c1 creates the datatype; c2 creates or subscribes it.  A user   *)
(* thread of each client writes, commits and rolls back; sync() drives one  *)
(* push_pull round at a time, in its three steps: the pack is built under   *)
(* the datatype lock, the server answers it under the server lock, the      *)
(* pull is applied under the datatype lock.                                 *)

Init ==
    /\ \E st \in {"DueToCreate", "DueToSubscribe"} :
           mutable = [c \in Clients |-> NewMutableDatatype(IF c = "c1" THEN "DueToCreate" ELSE st)]
    /\ attr = [c \in Clients |-> CounterAttr(IF c = "c1" THEN "d1" ELSE "d2", FALSE)]
    /\ \E first \in Clients :
           server = insert_client_item(
                        insert_client_item(
                            NewLocalDatatypeServer(first,
                                CounterAttr(IF first = "c1" THEN "d1" ELSE "d2", FALSE)),
                            "c1"),
                        "c2")
    /\ wire = [c \in Clients |-> IdleWire]
    /\ user = [c \in Clients |-> IdleUser]
    /\ lastPush = None /\ lastPull = None
    /\ NoLoop /\ NoBuffer /\ NoManager

\* a mutating call on a datatype that is not writable: FailedToWrite
WriteRefused(c) ==
    /\ user[c].alive
    /\ ~check_writable(mutable[c], attr[c])
    /\ user' = [user EXCEPT ![c].last = "FailedToWrite"]
    /\ UNCHANGED <<mutable, attr, manager, server, wire, loop, writer, pbuf, pbout, lastPush, lastPull>>

\* increase_by / an operation inside a transaction closure
ExecOp(c, op) ==
    /\ user[c].alive
    /\ check_writable(mutable[c], attr[c])
    /\ IF mutable[c].transaction = None
       THEN mutable[c].op_id.cseq < TxBound(c)
       ELSE Len(mutable[c].transaction.operations) < OpBound(c)
    /\ LET r == execute_local_operation(mutable[c], c, op)
       IN /\ mutable' = [mutable EXCEPT ![c] = r.m]
          /\ user' = [user EXCEPT
                 ![c].last = IF r.ok THEN "executed" ELSE "FailedToExecuteOperation",
                 ![c].undone = 0,
                 ![c].own = (IF InBody(c) THEN @ ELSE 0) + (IF r.ok THEN 1 ELSE 0),
                 ![c].pb_at_begin = IF mutable[c].transaction = None
                                    THEN mutable[c].push_buffer ELSE @]
    /\ UNCHANGED <<attr, manager, server, wire, loop, writer, pbuf, pbout, lastPush, lastPull>>

\* the transaction body returned Ok: end_transaction(tag, true)
Commit(c, tag) ==
    /\ user[c].alive
    /\ check_writable(mutable[c], attr[c])
    /\ mutable[c].transaction # None
    /\ LET r == end_transaction(mutable[c], c, tag, TRUE)
       IN /\ mutable' = [mutable EXCEPT ![c] = r.m]
          /\ user' = [user EXCEPT
                 ![c].alive = r.res # "panic",
                 ![c].last = r.res,
                 ![c].undone = 0,
                 ![c].own = IF InBody(c) THEN @ ELSE 0,
                 ![c].commits = IF r.res = "committed" THEN Append(@, r.tx.cseq) ELSE @,
                 ![c].committed_value = IF r.res = "committed" THEN r.m.crdt ELSE @]
    /\ UNCHANGED <<attr, manager, server, wire, loop, writer, pbuf, pbout, lastPush, lastPull>>

\* the transaction body returned Err: end_transaction(tag, false)
Rollback(c) ==
    /\ user[c].alive
    /\ check_writable(mutable[c], attr[c])
    /\ LET r == end_transaction(mutable[c], c, 0, FALSE)
       IN /\ mutable' = [mutable EXCEPT ![c] = r.m]
          /\ user' = [user EXCEPT ![c].last = "rollback",
                                  ![c].own = IF InBody(c) THEN @ ELSE 0,
                                  ![c].undone = IF mutable[c].transaction = None THEN 0
                                                ELSE Len(mutable[c].transaction.operations),
                                  ![c].pb_at_begin = IF mutable[c].transaction = None
                                                     THEN mutable[c].push_buffer ELSE @]
    /\ UNCHANGED <<attr, manager, server, wire, loop, writer, pbuf, pbout, lastPush, lastPull>>

\* push_pull, step 1: create_push_pull_pack under the write lock
CreatePack(c) ==
    /\ wire[c].pc = "idle"
    /\ LET r == create_push_pull_pack(mutable[c], c, attr[c])
       IN wire' = [wire EXCEPT ![c] =
              IF r.res = "Ok"
              THEN [pc |-> "pushed", pushing |-> r.ppp, pulled |-> None, result |-> "none",
                    base |-> mutable[c].push_buffer.last_cseq, cp |-> mutable[c].checkpoint,
                    created |-> server.created]
              ELSE [IdleWire EXCEPT !.result = r.res, !.created = server.created]]
    /\ UNCHANGED <<mutable, attr, manager, server, user, loop, writer, pbuf, pbout, lastPush, lastPull>>

\* push_pull, step 2: connectivity.push_and_pull
PushAndPull(c) ==
    /\ wire[c].pc = "pushed"
    /\ LET r == LocalPushAndPull(server, wire[c].pushing, mutable)
       IN /\ server' = r.srv
          /\ wire' = [wire EXCEPT
                 ![c] = IF r.err = "none" THEN [@ EXCEPT !.pc = "pulled", !.pulled = r.pulled]
                        ELSE IF r.err = "panic"
                        THEN [@ EXCEPT !.pc = "panicked", !.result = "panic"]
                        ELSE [@ EXCEPT !.pc = "idle", !.result = "FailedInConnectivity"]]
    /\ UNCHANGED <<mutable, attr, manager, user, loop, writer, pbuf, pbout, lastPush, lastPull>>

\* push_pull, step 3: PullHandler::apply under the write lock
ApplyPull(c) ==
    /\ wire[c].pc = "pulled"
    /\ LET r == apply(mutable[c], wire[c].pulled)
       IN /\ mutable' = [mutable EXCEPT ![c] = r.m]
          /\ wire' = [wire EXCEPT ![c].pc = IF r.res = "panic" THEN "panicked" ELSE "idle",
                                  ![c].result = r.res]
    /\ UNCHANGED <<attr, manager, server, user, loop, writer, pbuf, pbout, lastPush, lastPull>>

Next ==
    \/ \E c \in Clients : WriteRefused(c)
    \/ \E c \in Clients, op \in LocalOps : ExecOp(c, op)
    \/ \E c \in Clients, tag \in TagLens : Commit(c, tag)
    \/ \E c \in Clients : Rollback(c)
    \/ \E c \in Clients : CreatePack(c)
    \/ \E c \in Clients : PushAndPull(c)
    \/ \E c \in Clients : ApplyPull(c)

Spec == Init /\ [][Next]_vars

-----------------------------------------------------------------------------
(* SpecBig: the client c1 alone, committing transactions whose tag makes    *)
(* them larger than the transmission cap of one pack while the push buffer  *)
(* still admits them.                                                       *)

BigTagLens == 0..MaxBigTagLen

NextBig ==
    \/ \E op \in LocalOps : ExecOp("c1", op)
    \/ \E tag \in BigTagLens : Commit("c1", tag)
    \/ Rollback("c1")
    \/ CreatePack("c1")
    \/ PushAndPull("c1")
    \/ ApplyPull("c1")

SpecBig == Init /\ [][NextBig]_vars

-----------------------------------------------------------------------------
(* SpecPB: a MemoryPushBuffer driven through its interface with arbitrary   *)
(* transactions (any cseq from 1 on, as Transaction::new never yields 0),   *)
(* arbitrary get_after requests and arbitrary deque bounds.                 *)

BufTxs ==
    {[cuid |-> "c1", cseq |-> n, sseq |-> 0, tag |-> t, operations |-> <<CounterIncrease(1)>>] :
        n \in 1..MaxBufCseq, t \in 0..MaxBufTagLen}

InitPB ==
    /\ NoClients /\ NoServer /\ NoLoop /\ NoManager
    /\ pbuf = NewPushBuffer
    /\ pbout = None

PBEnque(tx) ==
    /\ LET r == enque(pbuf, tx)
       IN /\ pbuf' = r.pb
          /\ pbout' = [call |-> "enque", res |-> r.res, txs |-> <<tx>>, before |-> pbuf]
    /\ UNCHANGED <<mutable, attr, manager, server, wire, user, loop, writer, lastPush, lastPull>>

PBGetAfter(cseq, max_mem_size) ==
    /\ LET r == get_after(pbuf, cseq, max_mem_size)
       IN pbout' = [call |-> "get_after", res |-> r.res, txs |-> r.txs, before |-> pbuf,
                    cseq |-> cseq, max_mem_size |-> max_mem_size]
    /\ UNCHANGED <<mutable, attr, manager, server, wire, user, loop, writer, pbuf, lastPush, lastPull>>

PBDeque(upto_cseq) ==
    /\ LET r == deque(pbuf, upto_cseq)
       IN /\ pbuf' = r.pb
          /\ pbout' = [call |-> "deque", res |-> "Ok", txs |-> r.ret, before |-> pbuf,
                       upto_cseq |-> upto_cseq]
    /\ UNCHANGED <<mutable, attr, manager, server, wire, user, loop, writer, lastPush, lastPull>>

NextPB ==
    \/ \E tx \in BufTxs : PBEnque(tx)
    \/ \E cseq \in 0..(MaxBufCseq + 1), max_mem_size \in 0..MaxMemSizeOfPushBuffer :
           PBGetAfter(cseq, max_mem_size)
    \/ \E upto_cseq \in 0..(MaxBufCseq + 1) : PBDeque(upto_cseq)

SpecPB == InitPB /\ [][NextPB]_vars

-----------------------------------------------------------------------------
(* SpecServer: the loopback server record of one ResourceID answering       *)
(* arbitrary packs: any registered client, any duid, readonly or not, any   *)
(* lifecycle state, any contiguous run of transactions.                     *)

SrvTx(c, n) == [cuid |-> c, cseq |-> n, sseq |-> 0, tag |-> 0, operations |-> <<CounterIncrease(1)>>]

\* the contiguous runs of transactions of client c, the empty one included
SrvRuns(c) ==
    {<<>>} \cup {[i \in 1..((b - a) + 1) |-> SrvTx(c, (a + i) - 1)] :
                    a \in 1..MaxSrvCseq, b \in 1..MaxSrvCseq}

SrvPack(c, d, ro, st, run) ==
    checkpointing([NewPushPullPack(c, CounterAttr(d, ro), st) EXCEPT !.transactions = run],
                  NewCheckPoint(0, 0), 0)

SrvPacks ==
    UNION {{SrvPack(c, d, ro, st, run) :
                d \in Duids, ro \in BOOLEAN,
                st \in {"DueToCreate", "DueToSubscribe", "Subscribed"},
                run \in SrvRuns(c)} : c \in Clients}

InitServer ==
    /\ NoClients /\ NoLoop /\ NoBuffer /\ NoManager
    /\ \E first \in Clients :
           server = insert_client_item(
                        insert_client_item(
                            NewLocalDatatypeServer(first,
                                CounterAttr(IF first = "c1" THEN "d1" ELSE "d2", FALSE)),
                            "c1"),
                        "c2")
    /\ lastPush = None
    /\ lastPull = None

\* LocalConnectivity::push_and_pull under the write lock of the server record
ServerPush(pushed) ==
    /\ LET r == LocalPushAndPull(server, pushed, mutable)
       IN /\ server' = r.srv
          /\ lastPull' = [err |-> r.err, pulled |-> r.pulled, before |-> server]
    /\ lastPush' = pushed
    /\ UNCHANGED <<mutable, attr, manager, wire, user, loop, writer, pbuf, pbout>>

NextServer == \E pushed \in SrvPacks : ServerPush(pushed)

SpecServer == InitServer /\ [][NextServer]_vars

-----------------------------------------------------------------------------
(* SpecCreate: both clients of one key push DueToCreate packs, each under   *)
(* the duid of its own datatype, in any order and any number of times; a    *)
(* client is readonly or not, and a readonly client has no transaction.     *)

InitCreate ==
    /\ mutable = [c \in Clients |-> NewMutableDatatype("DueToCreate")]
    /\ \E ro \in [Clients -> BOOLEAN] :
           attr = [c \in Clients |-> CounterAttr(IF c = "c1" THEN "d1" ELSE "d2", ro[c])]
    /\ wire = [c \in Clients |-> IdleWire]
    /\ user = [c \in Clients |-> IdleUser]
    /\ \E first \in Clients :
           server = insert_client_item(
                        insert_client_item(NewLocalDatatypeServer(first, attr[first]), "c1"),
                        "c2")
    /\ lastPush = None
    /\ lastPull = None
    /\ NoLoop /\ NoBuffer /\ NoManager

CreatePacks ==
    UNION {{SrvPack(c, attr[c].duid, attr[c].is_readonly, "DueToCreate", run) :
                run \in IF attr[c].is_readonly THEN {<<>>} ELSE SrvRuns(c)} : c \in Clients}

NextCreate == \E pushed \in CreatePacks : ServerPush(pushed)

SpecCreate == InitCreate /\ [][NextCreate]_vars

\* subscribe packs of another type than the record's
SrvMapPacks ==
    {[p EXCEPT !.type = "Map"] : p \in {q \in SrvPacks : q.state = "DueToSubscribe"}}

NextServerTyped == \E pushed \in SrvPacks \cup SrvMapPacks : ServerPush(pushed)

SpecServerTyped == InitServer /\ [][NextServerTyped]_vars

-----------------------------------------------------------------------------
(* SpecSnapshot: the creator c1 writes and runs push_pull rounds against the *)
(* loopback server while subscribe packs of c2 are handed to the             *)
(* connectivity at any moment                                                *)

SubscribePack == SrvPack("c2", "d2", FALSE, "DueToSubscribe", <<>>)

InitSnapshot ==
    /\ mutable = [c \in Clients |-> NewMutableDatatype(IF c = "c1" THEN "DueToCreate" ELSE "DueToSubscribe")]
    /\ attr = [c \in Clients |-> CounterAttr(IF c = "c1" THEN "d1" ELSE "d2", FALSE)]
    /\ server = insert_client_item(
                    insert_client_item(NewLocalDatatypeServer("c1", CounterAttr("d1", FALSE)), "c1"),
                    "c2")
    /\ wire = [c \in Clients |-> IdleWire]
    /\ user = [c \in Clients |-> IdleUser]
    /\ lastPush = None /\ lastPull = None
    /\ NoLoop /\ NoBuffer /\ NoManager

NextSnapshot ==
    \/ \E op \in LocalOps : ExecOp("c1", op)
    \/ \E tag \in TagLens : Commit("c1", tag)
    \/ Rollback("c1")
    \/ CreatePack("c1")
    \/ PushAndPull("c1")
    \/ ApplyPull("c1")
    \/ ServerPush(SubscribePack)

SpecSnapshot == InitSnapshot /\ [][NextSnapshot]_vars

-----------------------------------------------------------------------------
(* SpecLock: the locks of the loopback scenario.  The creator c1 runs        *)
(* push_pull rounds, the subscriber c2 calls push_and_pull with its          *)
(* subscribe pack, and a user thread works on each datatype.  A lock is      *)
(* "server" (the record of the ResourceID) or the cuid of the datatype it    *)
(* protects; who holds which lock follows from the position of each thread.  *)

\* push_pull that keeps the guard of its datatype over the call of push_and_pull
held_over_push_kept(c) == {c}

\* the datatype locks push_pull of c holds while it calls push_and_pull: the
\* guard of create_push_pull_pack is dropped at the end of its block
held_over_push(c) == {}

\* process_due_to_subscribe gets as far as get_subscribe_snapshot for the pack of c
NeedsSnapshot(c) ==
    /\ wire[c].pushing.state = "DueToSubscribe"
    /\ server.created
    /\ server.type = wire[c].pushing.type
    /\ wire[c].pushing.transactions = <<>>
    /\ server.creator \in server.wired_map

\* the locks held by the thread of c that runs push_pull or push_and_pull
WireHolds(c) ==
    IF wire[c].pc \in {"packing", "applying"} THEN {c}
    ELSE IF wire[c].pc = "pushed" THEN held_over_push(c)
    ELSE IF wire[c].pc = "in_server" THEN {"server"} \cup held_over_push(c)
    ELSE IF wire[c].pc = "in_call" THEN {"server"}
    ELSE IF wire[c].pc = "in_snapshot" THEN {"server", server.creator}
    ELSE {}

\* the lock the thread of c is about to take
WireWants(c) ==
    IF wire[c].pc \in {"pushed", "calling"} THEN "server"
    ELSE IF wire[c].pc = "in_call" /\ NeedsSnapshot(c) THEN server.creator
    ELSE IF wire[c].pc = "pulled" THEN c
    ELSE "none"

Locked(l) == (l \in Clients /\ user[l].holds) \/ \E c \in Clients : l \in WireHolds(c)

InitLock ==
    /\ mutable = [c \in Clients |-> NewMutableDatatype(IF c = "c1" THEN "DueToCreate" ELSE "DueToSubscribe")]
    /\ attr = [c \in Clients |-> CounterAttr(IF c = "c1" THEN "d1" ELSE "d2", FALSE)]
    /\ server = insert_client_item(
                    insert_client_item(NewLocalDatatypeServer("c1", CounterAttr("d1", FALSE)), "c1"),
                    "c2")
    /\ wire = [c \in Clients |-> IdleWire]
    /\ user = [c \in Clients |->
                  [alive |-> TRUE, last |-> "none", commits |-> <<>>, committed_value |-> 0,
                   pb_at_begin |-> NewPushBuffer, undone |-> 0, own |-> 0, holds |-> FALSE]]
    /\ lastPush = None /\ lastPull = None
    /\ NoLoop /\ NoBuffer /\ NoManager

\* a user call takes the write lock of its datatype
UserLock(c) ==
    /\ ~user[c].holds
    /\ ~Locked(c)
    /\ user' = [user EXCEPT ![c].holds = TRUE]
    /\ UNCHANGED <<mutable, attr, manager, server, wire, loop, writer, pbuf, pbout, lastPush, lastPull>>

\* the user call returns and drops the guard
UserUnlock(c) ==
    /\ user[c].holds
    /\ user' = [user EXCEPT ![c].holds = FALSE]
    /\ UNCHANGED <<mutable, attr, manager, server, wire, loop, writer, pbuf, pbout, lastPush, lastPull>>

\* push_pull: self.mutable.write() before create_push_pull_pack
LockForPack(c) ==
    /\ wire[c].pc = "idle"
    /\ ~Locked(c)
    /\ wire' = [wire EXCEPT ![c].pc = "packing"]
    /\ UNCHANGED <<mutable, attr, manager, server, user, loop, writer, pbuf, pbout, lastPush, lastPull>>

\* push_pull: create_push_pull_pack under the guard, which the block then drops
PackUnderLock(c) ==
    /\ wire[c].pc = "packing"
    /\ LET r == create_push_pull_pack(mutable[c], c, attr[c])
       IN wire' = [wire EXCEPT ![c] =
              IF r.res = "Ok"
              THEN [pc |-> "pushed", pushing |-> r.ppp, pulled |-> None, result |-> "none",
                    base |-> mutable[c].push_buffer.last_cseq, cp |-> mutable[c].checkpoint,
                    created |-> server.created]
              ELSE [IdleWire EXCEPT !.result = r.res, !.created = server.created]]
    /\ UNCHANGED <<mutable, attr, manager, server, user, loop, writer, pbuf, pbout, lastPush, lastPull>>

\* the subscriber hands its subscribe pack to connectivity.push_and_pull
SubscriberCall(c) ==
    /\ wire[c].pc \in {"idle", "returned"}
    /\ wire' = [wire EXCEPT ![c] = [IdleWire EXCEPT !.pc = "calling", !.pushing = SubscribePack]]
    /\ UNCHANGED <<mutable, attr, manager, server, user, loop, writer, pbuf, pbout, lastPush, lastPull>>

\* push_and_pull: local_datatype_server_with_lock.write()
LockServer(c) ==
    /\ wire[c].pc \in {"pushed", "calling"}
    /\ ~Locked("server")
    /\ wire' = [wire EXCEPT ![c].pc = IF wire[c].pc = "pushed" THEN "in_server" ELSE "in_call"]
    /\ UNCHANGED <<mutable, attr, manager, server, user, loop, writer, pbuf, pbout, lastPush, lastPull>>

\* get_subscribe_snapshot: the write lock of the creator's datatype, under the server lock
LockSnapshot(c) ==
    /\ wire[c].pc = "in_call"
    /\ NeedsSnapshot(c)
    /\ ~Locked(server.creator)
    /\ wire' = [wire EXCEPT ![c].pc = "in_snapshot"]
    /\ UNCHANGED <<mutable, attr, manager, server, user, loop, writer, pbuf, pbout, lastPush, lastPull>>

\* push_and_pull: the pack is processed and the guards are dropped
PushUnderLock(c) ==
    /\ \/ wire[c].pc = "in_server"
       \/ wire[c].pc = "in_call" /\ ~NeedsSnapshot(c)
       \/ wire[c].pc = "in_snapshot"
    /\ LET r == LocalPushAndPull(server, wire[c].pushing, mutable)
       IN /\ server' = r.srv
          /\ wire' = [wire EXCEPT
                 ![c] = IF r.err = "none"
                        THEN [@ EXCEPT !.pc = IF wire[c].pc = "in_server" THEN "pulled" ELSE "returned",
                                       !.pulled = r.pulled]
                        ELSE IF r.err = "panic"
                        THEN [@ EXCEPT !.pc = "panicked", !.result = "panic"]
                        ELSE [@ EXCEPT !.pc = "idle", !.result = "FailedInConnectivity"]]
    /\ UNCHANGED <<mutable, attr, manager, user, loop, writer, pbuf, pbout, lastPush, lastPull>>

\* push_pull: self.mutable.write() before PullHandler::apply
LockForApply(c) ==
    /\ wire[c].pc = "pulled"
    /\ ~Locked(c)
    /\ wire' = [wire EXCEPT ![c].pc = "applying"]
    /\ UNCHANGED <<mutable, attr, manager, server, user, loop, writer, pbuf, pbout, lastPush, lastPull>>

\* push_pull: PullHandler::apply under the guard, dropped at the return
ApplyUnderLock(c) ==
    /\ wire[c].pc = "applying"
    /\ LET r == apply(mutable[c], wire[c].pulled)
       IN /\ mutable' = [mutable EXCEPT ![c] = r.m]
          /\ wire' = [wire EXCEPT ![c].pc = IF r.res = "panic" THEN "panicked" ELSE "idle",
                                  ![c].result = r.res]
    /\ UNCHANGED <<attr, manager, server, user, loop, writer, pbuf, pbout, lastPush, lastPull>>

NextLock ==
    \/ \E c \in Clients : UserLock(c)
    \/ \E c \in Clients : UserUnlock(c)
    \/ \E c \in Clients : user[c].holds /\ WriteRefused(c)
    \/ \E c \in Clients, op \in LocalOps : user[c].holds /\ ExecOp(c, op)
    \/ \E c \in Clients, tag \in TagLens : user[c].holds /\ Commit(c, tag)
    \/ \E c \in Clients : user[c].holds /\ Rollback(c)
    \/ LockForPack("c1")
    \/ PackUnderLock("c1")
    \/ SubscriberCall("c2")
    \/ \E c \in Clients : LockServer(c)
    \/ LockSnapshot("c2")
    \/ \E c \in Clients : PushUnderLock(c)
    \/ LockForApply("c1")
    \/ ApplyUnderLock("c1")

SpecLock == InitLock /\ [][NextLock]_vars

-----------------------------------------------------------------------------
(* SpecPull: the pull handler of one datatype applying arbitrary pulls: any *)
(* lifecycle state and any checkpoint on a pull without error; a pull with  *)
(* a server error is the stub of the pushed pack with the error set, as     *)
(* both connectivities of the repository build it.                          *)

PullStub(c) == get_pulled_stub(NewPushPullPack(c, attr[c], mutable[c].state))

\* the state field of a pulled pack: any state of the enum
PulledStates == DatatypeStates

InitPull ==
    /\ \E st \in {"DueToCreate", "DueToSubscribe", "DueToSubscribeOrCreate", "Subscribed"} :
           mutable = [c \in Clients |-> NewMutableDatatype(IF c = "c1" THEN st ELSE "DueToCreate")]
    /\ attr = [c \in Clients |-> CounterAttr(IF c = "c1" THEN "d1" ELSE "d2", FALSE)]
    /\ wire = [c \in Clients |-> IdleWire]
    /\ user = [c \in Clients |-> IdleUser]
    /\ NoServer /\ NoLoop /\ NoBuffer /\ NoManager

\* PullHandler::apply of the pull under the write lock of the datatype
Pull(c, pulled) ==
    /\ wire[c].pc = "idle"
    /\ LET r == apply(mutable[c], pulled)
       IN /\ mutable' = [mutable EXCEPT ![c] = r.m]
          /\ wire' = [wire EXCEPT ![c].pc = IF r.res = "panic" THEN "panicked" ELSE "idle",
                                  ![c].pulled = pulled,
                                  ![c].cp = mutable[c].checkpoint,
                                  ![c].result = r.res]
    /\ UNCHANGED <<attr, manager, server, user, loop, writer, pbuf, pbout, lastPush, lastPull>>

\* a pull without error
PullAnswer(c, st, sseq, cseq) ==
    /\ st \in PulledStates
    /\ Pull(c, [PullStub(c) EXCEPT !.state = st, !.checkpoint = NewCheckPoint(sseq, cseq)])

\* a pull with a server error: the stub keeps the pushed state, or carries
\* Disabled as NullConnectivity sets it
PullError(c, kind, st) ==
    /\ st \in {mutable[c].state, "Disabled"}
    /\ Pull(c, [PullStub(c) EXCEPT !.error = ServerError(kind, "refused"), !.state = st])

NextPull ==
    \/ \E st \in PulledStates, sseq \in 0..MaxPullSeq, cseq \in 0..MaxPullSeq :
           PullAnswer("c1", st, sseq, cseq)
    \/ \E kind \in {"FailedToCreate", "FailedToSubscribe", "IllegalPushRequest"},
          st \in DatatypeStates : PullError("c1", kind, st)

SpecPull == InitPull /\ [][NextPull]_vars

\* the pull handler on a datatype in any lifecycle state of the enum
InitPullAny ==
    /\ \E st \in DatatypeStates :
           mutable = [c \in Clients |-> NewMutableDatatype(IF c = "c1" THEN st ELSE "DueToCreate")]
    /\ attr = [c \in Clients |-> CounterAttr(IF c = "c1" THEN "d1" ELSE "d2", FALSE)]
    /\ wire = [c \in Clients |-> IdleWire]
    /\ user = [c \in Clients |-> IdleUser]
    /\ NoServer /\ NoLoop /\ NoBuffer /\ NoManager

SpecPullAny == InitPullAny /\ [][NextPull]_vars

\* the pull handler on a datatype that its user writes to between pulls; the
\* pulls carry the state of the datatype, as the stub of its own push does
NextPullWrite ==
    \/ \E sseq \in 0..1, cseq \in 0..1 : PullAnswer("c1", mutable["c1"].state, sseq, cseq)
    \/ \E kind \in {"FailedToCreate", "FailedToSubscribe", "IllegalPushRequest"} :
           PullError("c1", kind, mutable["c1"].state)
    \/ \E op \in LocalOps : ExecOp("c1", op)
    \/ \E tag \in TagLens : Commit("c1", tag)
    \/ Rollback("c1")

SpecPullWrite == InitPull /\ [][NextPullWrite]_vars

-----------------------------------------------------------------------------
(* NullConnectivity *)

\* NullConnectivity::push_and_pull; err is "panic" for todo!() / unreachable!()
NullPushAndPull(pushed) ==
    LET pulled == get_pulled_stub(pushed)
        illegal(reason) == [pulled EXCEPT !.error = ServerError("IllegalPushRequest", reason),
                                          !.state = "Disabled"]
        push_transaction(pl) ==
            [pl EXCEPT !.checkpoint = NewCheckPoint(pushed.checkpoint.cseq, pushed.checkpoint.cseq)]
    IN IF pushed.state \in {"DueToCreate", "DueToSubscribeOrCreate"}
       THEN [err |-> "none",
             pulled |-> IF pushed.is_readonly
                        THEN illegal("readonly client cannot create datatype")
                        ELSE push_transaction([pulled EXCEPT !.state = "DueToCreate"])]
       ELSE IF pushed.state = "DueToSubscribe"
       THEN [err |-> "none",
             pulled |-> IF pushed.transactions # <<>>
                        THEN illegal("cannot subscribe with transactions")
                        ELSE [pulled EXCEPT !.state = "DueToSubscribe"]]
       ELSE IF pushed.state = "Subscribed"
       THEN [err |-> "none", pulled |-> push_transaction([pulled EXCEPT !.state = "Subscribed"])]
       ELSE [err |-> "panic", pulled |-> None]

-----------------------------------------------------------------------------
(* SpecRT: one datatype in realtime mode on NullConnectivity.  A writer     *)
(* thread calls increase_by and then posts the best-effort PushTransaction  *)
(* event; it may also post the guaranteed event and the Stop event.  The    *)
(* event loop runs push_if_needed, waits in select on its two channels and  *)
(* handles the event it receives.  A try_send on the channel of capacity 0  *)
(* succeeds only while the loop is waiting in select.                       *)

RtClient == "c1"

InitRT ==
    /\ NoClients /\ NoServer /\ NoBuffer /\ NoManager
    /\ loop = [pc |-> "top", after |-> "select", event |-> "none", unbounded |-> <<>>,
               connectivity |-> "Null", realtime |-> TRUE]
    /\ writer = [pc |-> "idle", writes |-> 0, synced |-> FALSE, stopped |-> FALSE]

\* increase_by: one operation as a transaction of its own, under the write lock
RTIncrease(delta) ==
    /\ writer.pc = "idle"
    /\ writer.writes < MaxRtWrites
    /\ check_writable(mutable[RtClient], attr[RtClient])
    /\ LET e == execute_local_operation(mutable[RtClient], RtClient, CounterIncrease(delta))
           r == end_transaction(e.m, RtClient, 0, e.ok)
       IN /\ mutable' = [mutable EXCEPT ![RtClient] = r.m]
          /\ writer' = [writer EXCEPT !.pc = IF r.res = "panic" THEN "panicked" ELSE "sending",
                                      !.writes = @ + 1]
    /\ UNCHANGED <<attr, manager, server, wire, user, loop, pbuf, pbout, lastPush, lastPull>>

\* send_push_transaction_with_best_effort: nothing when the connectivity is
\* not realtime, else try_send on the channel of capacity 0
RTSendBestEffort ==
    /\ writer.pc = "sending"
    /\ writer' = [writer EXCEPT !.pc = "idle"]
    /\ loop' = IF loop.realtime /\ loop.pc = "waiting"
               THEN [loop EXCEPT !.pc = "event", !.event = "PushTransaction"]
               ELSE loop
    /\ UNCHANGED <<mutable, attr, manager, server, wire, user, pbuf, pbout, lastPush, lastPull>>

\* send_push_transaction_with_guarantee / send_stop: try_send on the unbounded channel
RTSendUnbounded(ev) ==
    /\ writer.pc = "idle"
    /\ ~writer.stopped
    /\ loop.unbounded = <<>>
    /\ loop' = [loop EXCEPT !.unbounded = Append(@, ev)]
    /\ writer' = [writer EXCEPT !.stopped = (ev = "Stop"),
                                !.synced = (@ \/ ev = "PushTransaction")]
    /\ UNCHANGED <<mutable, attr, manager, server, wire, user, pbuf, pbout, lastPush, lastPull>>

\* push_if_needed that does not ask the connectivity whether it is realtime
push_if_needed_always(is_realtime, m) == need_push(m)

\* push_if_needed: whether it goes on to push_pull
push_if_needed(is_realtime, m) == is_realtime /\ need_push(m)

\* the top of the loop: push_if_needed reads need_push under the read lock
RTPushIfNeeded ==
    /\ loop.pc = "top"
    /\ loop' = [loop EXCEPT !.pc = IF push_if_needed(loop.realtime, mutable[RtClient])
                                   THEN "create" ELSE "select",
                            !.after = "select"]
    /\ UNCHANGED <<mutable, attr, manager, server, wire, user, writer, pbuf, pbout, lastPush, lastPull>>

\* push_pull, first half: create_push_pull_pack under the write lock
RTCreatePack ==
    /\ loop.pc = "create"
    /\ LET r == create_push_pull_pack(mutable[RtClient], RtClient, attr[RtClient])
       IN IF r.res = "Ok"
          THEN /\ wire' = [wire EXCEPT ![RtClient] =
                              [IdleWire EXCEPT !.pc = "pushed", !.pushing = r.ppp,
                                               !.base = mutable[RtClient].push_buffer.last_cseq,
                                               !.cp = mutable[RtClient].checkpoint]]
               /\ loop' = [loop EXCEPT !.pc = "pushed"]
          ELSE /\ wire' = [wire EXCEPT ![RtClient] = [IdleWire EXCEPT !.result = r.res]]
               /\ loop' = [loop EXCEPT !.pc = loop.after]
    /\ UNCHANGED <<mutable, attr, manager, server, user, writer, pbuf, pbout, lastPush, lastPull>>

\* push_pull, second half: connectivity.push_and_pull and PullHandler::apply
RTPushPull ==
    /\ loop.pc = "pushed"
    /\ LET a == IF loop.connectivity = "Local"
                THEN LocalPushAndPull(server, wire[RtClient].pushing, mutable)
                ELSE [srv |-> server] @@ NullPushAndPull(wire[RtClient].pushing)
           r == IF a.err = "none" THEN apply(mutable[RtClient], a.pulled)
                ELSE IF a.err = "panic" THEN [res |-> "panic", m |-> mutable[RtClient]]
                ELSE [res |-> "FailedInConnectivity", m |-> mutable[RtClient]]
       IN /\ mutable' = [mutable EXCEPT ![RtClient] = r.m]
          /\ server' = a.srv
          /\ wire' = [wire EXCEPT ![RtClient].pc = "idle", ![RtClient].pulled = a.pulled,
                                  ![RtClient].result = r.res]
          /\ loop' = [loop EXCEPT !.pc = IF r.res = "panic" THEN "panicked" ELSE loop.after]
    /\ UNCHANGED <<attr, manager, user, writer, pbuf, pbout, lastPush, lastPull>>

\* select! over the two receivers: take a queued event, or wait
RTSelect ==
    /\ loop.pc \in {"select", "waiting"}
    /\ IF loop.unbounded # <<>>
       THEN loop' = [loop EXCEPT !.pc = "event", !.event = Head(loop.unbounded),
                                 !.unbounded = Tail(loop.unbounded)]
       ELSE loop.pc = "select" /\ loop' = [loop EXCEPT !.pc = "waiting"]
    /\ UNCHANGED <<mutable, attr, manager, server, wire, user, writer, pbuf, pbout, lastPush, lastPull>>

\* match event: Stop breaks the loop, PushTransaction runs push_pull
RTHandleEvent ==
    /\ loop.pc = "event"
    /\ loop' = IF loop.event = "Stop"
               THEN [loop EXCEPT !.pc = "stopped", !.event = "none"]
               ELSE [loop EXCEPT !.pc = "create", !.after = "top", !.event = "none"]
    /\ UNCHANGED <<mutable, attr, manager, server, wire, user, writer, pbuf, pbout, lastPush, lastPull>>

NextRT ==
    \/ \E delta \in Deltas : RTIncrease(delta)
    \/ RTSendBestEffort
    \/ \E ev \in {"PushTransaction", "Stop"} : RTSendUnbounded(ev)
    \/ RTPushIfNeeded
    \/ RTCreatePack
    \/ RTPushPull
    \/ RTSelect
    \/ RTHandleEvent

SpecRT == InitRT /\ [][NextRT]_vars

-----------------------------------------------------------------------------
(* SpecManual: the same datatype, event loop and writer on a                *)
(* LocalConnectivity set to manual mode (set_realtime(false)): sync() posts *)
(* the guaranteed PushTransaction event.                                    *)

InitManual ==
    /\ NoClients /\ NoBuffer /\ NoManager
    /\ server = insert_client_item(NewLocalDatatypeServer(RtClient, attr[RtClient]), RtClient)
    /\ lastPush = None /\ lastPull = None
    /\ loop = [pc |-> "top", after |-> "select", event |-> "none", unbounded |-> <<>>,
               connectivity |-> "Local", realtime |-> FALSE]
    /\ writer = [pc |-> "idle", writes |-> 0, synced |-> FALSE, stopped |-> FALSE]

SpecManual == InitManual /\ [][NextRT]_vars

-----------------------------------------------------------------------------
(* SpecStop: the event loop in manual mode on LocalConnectivity with a      *)
(* caller thread that writes, posts guaranteed PushTransaction events and   *)
(* calls send_stop, which blocks until the Stop is acknowledged.  The loop  *)
(* counts the push_pull rounds it starts for an event and the               *)
(* acknowledgements it sends.                                               *)

InitStop ==
    /\ NoClients /\ NoBuffer /\ NoManager
    /\ server = insert_client_item(NewLocalDatatypeServer(RtClient, attr[RtClient]), RtClient)
    /\ lastPush = None /\ lastPull = None
    /\ loop = [pc |-> "top", after |-> "select", event |-> "none", unbounded |-> <<>>,
               connectivity |-> "Local", realtime |-> FALSE, pushes |-> 0, acks |-> 0]
    /\ writer = [pc |-> "idle", writes |-> 0, synced |-> FALSE, stopped |-> FALSE,
                 posted |-> 0, at_stop |-> 0, stops |-> 0, returned |-> 0]

\* send_push_transaction_with_guarantee: try_send on the unbounded channel,
\* whose receiver the EventLoop itself keeps
StopPostGuarantee ==
    /\ writer.pc = "idle"
    /\ writer.posted < MaxPosts
    /\ loop' = [loop EXCEPT !.unbounded = Append(@, "PushTransaction")]
    /\ writer' = [writer EXCEPT !.posted = @ + 1, !.synced = TRUE]
    /\ UNCHANGED <<mutable, attr, manager, server, wire, user, pbuf, pbout, lastPush, lastPull>>

\* send_stop, first half: post Stop with a fresh oneshot, then block on its receiver
StopSendStop ==
    /\ writer.pc = "idle"
    /\ writer.stops < MaxStops
    /\ loop' = [loop EXCEPT !.unbounded = Append(@, "Stop")]
    /\ writer' = [writer EXCEPT !.pc = "stopping", !.stops = @ + 1, !.stopped = TRUE,
                                !.at_stop = IF writer.stops = 0 THEN writer.posted ELSE @]
    /\ UNCHANGED <<mutable, attr, manager, server, wire, user, pbuf, pbout, lastPush, lastPull>>

\* send_stop, second half: rx.await returns once the loop has sent on the oneshot
StopReturn ==
    /\ writer.pc = "stopping"
    /\ loop.acks > writer.returned
    /\ writer' = [writer EXCEPT !.pc = "idle", !.returned = @ + 1]
    /\ UNCHANGED <<mutable, attr, manager, server, wire, user, loop, pbuf, pbout, lastPush, lastPull>>

\* the arm of match event that goes on with the loop after Stop
handle_event_go_on(event) == IF event = "Stop" THEN "top" ELSE "create"

\* match event: where the loop goes for the event: Stop breaks, PushTransaction runs push_pull
handle_event(event) == IF event = "Stop" THEN "stopped" ELSE "create"

\* match event, with the acknowledgement of Stop and the count of the rounds
StopHandleEvent ==
    /\ loop.pc = "event"
    /\ loop' = [loop EXCEPT !.pc = handle_event(loop.event), !.after = "top", !.event = "none",
                            !.acks = IF loop.event = "Stop" THEN @ + 1 ELSE @,
                            !.pushes = IF loop.event = "Stop" THEN @ ELSE @ + 1]
    /\ UNCHANGED <<mutable, attr, manager, server, wire, user, writer, pbuf, pbout, lastPush, lastPull>>

NextStop ==
    \/ \E delta \in Deltas : RTIncrease(delta)
    \/ RTSendBestEffort
    \/ StopPostGuarantee
    \/ StopSendStop
    \/ StopReturn
    \/ RTPushIfNeeded
    \/ RTCreatePack
    \/ RTPushPull
    \/ RTSelect
    \/ StopHandleEvent

SpecStop == InitStop /\ [][NextStop]_vars

-----------------------------------------------------------------------------
(* SpecWrite: one datatype built in any lifecycle state, readonly or not,   *)
(* with no connectivity round: the user thread calls increase_by and        *)
(* transaction on it.                                                       *)

WriteClient == "c1"

InitWrite ==
    /\ \E st \in DatatypeStates, ro \in BOOLEAN :
           /\ mutable = [c \in Clients |-> NewMutableDatatype(st)]
           /\ attr = [c \in Clients |-> CounterAttr("d1", ro)]
    /\ wire = [c \in Clients |-> IdleWire]
    /\ user = [c \in Clients |-> IdleUser]
    /\ NoServer /\ NoLoop /\ NoBuffer /\ NoManager

NextWrite ==
    \/ WriteRefused(WriteClient)
    \/ \E op \in LocalOps : ExecOp(WriteClient, op)
    \/ \E tag \in TagLens : Commit(WriteClient, tag)
    \/ Rollback(WriteClient)

SpecWrite == InitWrite /\ [][NextWrite]_vars

-----------------------------------------------------------------------------
(* SpecManager: the registry of one client under requests of every key,     *)
(* type, state and access mode, while the registered datatypes move through *)
(* their lifecycle                                                          *)

\* Client::do_subscribe_or_create_datatype under the write lock of the manager
SubscribeOrCreate(key, type, state, is_readonly) ==
    LET r == subscribe_or_create_datatype(manager, key, type, state, is_readonly) IN
    /\ manager' = [r.m EXCEPT !.last = [key |-> key, type |-> type, state |-> state,
                                        is_readonly |-> is_readonly,
                                        res |-> r.res, dt |-> r.dt,
                                        before |-> manager.datatypes,
                                        after |-> r.m.datatypes]]
    /\ UNCHANGED <<mutable, attr, server, wire, user, loop, writer, pbuf, pbout, lastPush, lastPull>>

\* the pull handler of a registered datatype moves it to its next state
ManagedPull(key, pulled_state) ==
    /\ manager.datatypes[key] # None
    /\ new_state(manager.datatypes[key].state, pulled_state) # manager.datatypes[key].state
    /\ manager' = [manager EXCEPT !.datatypes[key].state = new_state(@, pulled_state)]
    /\ UNCHANGED <<mutable, attr, server, wire, user, loop, writer, pbuf, pbout, lastPush, lastPull>>

InitManager ==
    /\ NoClients /\ NoServer /\ NoLoop /\ NoBuffer /\ NoManager

NextManager ==
    \/ \E key \in Keys, type \in DataTypes, state \in BuilderStates, ro \in BOOLEAN :
           SubscribeOrCreate(key, type, state, ro)
    \/ \E key \in Keys, pulled_state \in PulledStates : ManagedPull(key, pulled_state)

SpecManager == InitManager /\ [][NextManager]_vars

-----------------------------------------------------------------------------
(* Properties *)

Iota(n) == [i \in 1..n |-> i]

CseqsOf(txs) == [i \in 1..Len(txs) |-> txs[i].cseq]

\* the cseqs of the transactions of client c in the server history, in history order
HistoryCseqs(c) == CseqsOf(SelectSeq(server.history, LAMBDA tx : tx.cuid = c))

C2_RollbackAtomic ==
    \A c \in Clients :
        user[c].last = "rollback" =>
            /\ mutable[c].crdt = user[c].committed_value
            /\ mutable[c].push_buffer = user[c].pb_at_begin

\* C3: in realtime mode a committed transaction is never left unpushed while
\* the event loop is blocked waiting for events: when the loop waits in
\* select, no event is queued and the writer has no send pending, every
\* committed transaction has been acknowledged (checkpoint.cseq has reached
\* the last cseq of the push buffer).
C3_NoLostPush ==
    (loop.pc = "waiting" /\ loop.unbounded = <<>> /\ writer.pc = "idle")
        => mutable[RtClient].push_buffer.last_cseq <= mutable[RtClient].checkpoint.cseq

\* C4: neither field of the client checkpoint ever decreases, and after a
\* pull was applied each field is the maximum of its value before and the
\* pulled value, also for a pull with a server error or a smaller checkpoint.
C4_CheckpointMonotone ==
    /\ [][\A c \in Clients :
              /\ mutable'[c].checkpoint.sseq >= mutable[c].checkpoint.sseq
              /\ mutable'[c].checkpoint.cseq >= mutable[c].checkpoint.cseq]_vars
    /\ [](\A c \in Clients :
              wire[c].pulled # None =>
                  /\ mutable[c].checkpoint.sseq
                         = Max(wire[c].cp.sseq, wire[c].pulled.checkpoint.sseq)
                  /\ mutable[c].checkpoint.cseq
                         = Max(wire[c].cp.cseq, wire[c].pulled.checkpoint.cseq))

\* a pull smaller in cseq and larger in sseq was applied to a checkpoint
C4_Witness ==
    /\ wire["c1"].pulled # None
    /\ wire["c1"].result = "Ok"
    /\ wire["c1"].pulled.checkpoint.cseq < wire["c1"].cp.cseq
    /\ wire["c1"].pulled.checkpoint.sseq > wire["c1"].cp.sseq
    /\ mutable["c1"].checkpoint = NewCheckPoint(wire["c1"].pulled.checkpoint.sseq, wire["c1"].cp.cseq)

\* C5: the push buffer is empty with first_cseq = last_cseq = mem_size = 0,
\* or it holds exactly one transaction for each cseq of first_cseq..last_cseq
\* in increasing order and mem_size is the sum of their sizes.
C5_Contiguity ==
    IF pbuf.transaction = <<>>
    THEN pbuf.first_cseq = 0 /\ pbuf.last_cseq = 0 /\ pbuf.mem_size = 0
    ELSE /\ \A i \in 1..Len(pbuf.transaction) :
                pbuf.transaction[i].cseq = (pbuf.first_cseq + i) - 1
         /\ pbuf.last_cseq = (pbuf.first_cseq + Len(pbuf.transaction)) - 1
         /\ pbuf.first_cseq >= 1
         /\ pbuf.mem_size = SumSize(pbuf.transaction)

\* a deque took the front of the buffer and left two transactions
C5_Witness ==
    /\ pbout # None
    /\ pbout.call = "deque"
    /\ pbout.txs # <<>>
    /\ Len(pbuf.transaction) = 2
    /\ pbuf.first_cseq = 2

\* C6: a push of a readonly pack leaves the server history, the server sseq
\* and the created mark as they were, whatever state and transactions the
\* pack carries; a readonly DueToCreate push is answered with FailedToCreate.
C6_ReadonlySafety ==
    (lastPush # None /\ lastPush.is_readonly) =>
        /\ server.history = lastPull.before.history
        /\ server.sseq = lastPull.before.sseq
        /\ server.created = lastPull.before.created
        /\ lastPush.state = "DueToCreate" =>
               /\ lastPull.err = "none"
               /\ lastPull.pulled.error # None
               /\ lastPull.pulled.error.kind = "FailedToCreate"

\* a readonly DueToCreate push with transactions on a record not yet created
C6_Witness ==
    /\ lastPush # None
    /\ lastPush.is_readonly
    /\ lastPush.state = "DueToCreate"
    /\ lastPush.transactions # <<>>
    /\ ~lastPull.before.created
    /\ lastPull.pulled.error = ServerError("FailedToCreate", "readonly client cannot create datatype")

C8_NoDuplicateHistory ==
    /\ [](\A i \in 1..Len(server.history) : \A j \in 1..Len(server.history) :
              (i < j /\ server.history[i].cuid = server.history[j].cuid)
                  => server.history[i].cseq < server.history[j].cseq)
    /\ [][(/\ lastPush # None
           /\ lastPush' = lastPush
           /\ lastPush.state = "DueToCreate"
           /\ lastPull.err = "none"
           /\ lastPull.pulled.error = None)
              => /\ lastPull'.pulled = lastPull.pulled
                 /\ server'.history = server.history]_vars

\* a DueToCreate push of two transactions that the history already held
C8_Witness ==
    /\ lastPush # None
    /\ lastPush.state = "DueToCreate"
    /\ Len(lastPush.transactions) = 2
    /\ lastPull.err = "none"
    /\ lastPull.pulled.error = None
    /\ lastPull.before.history = server.history
    /\ server.history # <<>>

\* a sync() of client c that ran as DueToCreate has returned Ok
SyncedCreator(c) ==
    /\ wire[c].pc = "idle"
    /\ wire[c].result = "Ok"
    /\ wire[c].pushing # None
    /\ wire[c].pushing.state = "DueToCreate"

\* C9: after a successful sync() of a creating client the server history
\* holds every transaction the client had committed before that sync, each
\* once and in cseq order, and the client's value (no transaction being
\* open) is the sum of the deltas of its committed transactions.
C9_SyncPushesAll ==
    \A c \in Clients :
        SyncedCreator(c) =>
            /\ HistoryCseqs(c) = Iota(wire[c].base)
            /\ (user[c].alive /\ mutable[c].transaction = None)
                   => mutable[c].crdt = SumTxDelta(mutable[c].push_buffer.transaction)

\* C10: applying a pull that carries FailedToCreate to a client in
\* DueToCreate leaves it in DueToCreate with its checkpoint unchanged.
C10_FailedToCreateKeepsState ==
    [][\A c \in Clients :
           (/\ wire[c].pc = "pulled"
            /\ wire'[c].pc # "pulled"
            /\ wire[c].pulled.error # None
            /\ wire[c].pulled.error.kind = "FailedToCreate"
            /\ mutable[c].state = "DueToCreate")
               => /\ mutable'[c].state = "DueToCreate"
                  /\ mutable'[c].checkpoint = mutable[c].checkpoint]_vars

\* the writable lifecycle states, as the specification of the program lists them
WritableStates == {"DueToCreate", "DueToSubscribeOrCreate", "Subscribed"}

\* C11: a datatype whose state is not DueToCreate, DueToSubscribeOrCreate or
\* Subscribed, or whose readonly flag is set, answers every mutating call
\* with FailedToWrite and keeps its value, its op-id counters, its open
\* transaction and its push buffer as they were built; a datatype in one of
\* those states with the flag unset never answers FailedToWrite.
C11_WriteGuard ==
    \A c \in Clients :
        IF mutable[c].state \in WritableStates /\ ~attr[c].is_readonly
        THEN user[c].last # "FailedToWrite"
        ELSE /\ user[c].last \in {"none", "FailedToWrite"}
             /\ mutable[c] = NewMutableDatatype(mutable[c].state)
             /\ user[c].commits = <<>>

\* a readonly datatype in a writable state refused a write
C11_Witness ==
    /\ mutable[WriteClient].state = "DueToCreate"
    /\ attr[WriteClient].is_readonly
    /\ user[WriteClient].last = "FailedToWrite"

\* C12: a realtime datatype built in DueToCreate reaches Subscribed by the
\* push_if_needed at the top of the event loop alone: when the loop blocks in
\* select and the user has neither written nor posted a guaranteed
\* PushTransaction, the datatype is Subscribed.
C12_InitialPushConverges ==
    (loop.pc = "waiting" /\ writer.writes = 0 /\ ~writer.synced)
        => mutable[RtClient].state = "Subscribed"

\* C13: in manual mode, as long as sync() has not been called, writes and
\* commits leave the lifecycle state and the checkpoint of the datatype and
\* the history, sseq and created mark of the server as they were built, and
\* no pack is built or sent; and a push_pull round that ends without error
\* on a datatype in DueToCreate leaves it Subscribed.
C13_ManualNoPush ==
    /\ [](~writer.synced =>
              /\ mutable[RtClient].state = "DueToCreate"
              /\ mutable[RtClient].checkpoint = NewCheckPoint(0, 0)
              /\ server.history = <<>> /\ server.sseq = 0 /\ ~server.created
              /\ wire[RtClient] = IdleWire)
    /\ [][(/\ loop.pc = "pushed"
           /\ wire'[RtClient].result = "Ok"
           /\ mutable[RtClient].state = "DueToCreate")
              => mutable'[RtClient].state = "Subscribed"]_vars

\* three commits were made before the first sync(), which then succeeded
C13_Witness ==
    /\ writer.synced
    /\ wire[RtClient].base = 3
    /\ wire[RtClient].result = "Ok"
    /\ mutable[RtClient].state = "Subscribed"
    /\ server.created
    /\ ~loop.realtime

\* the step that ends the push_pull round the event loop ran for a
\* PushTransaction event (the round sync() asked for)
SyncRoundEnds ==
    /\ loop.pc \in {"create", "pushed"}
    /\ loop.after = "top"
    /\ loop'.pc # "pushed"

C15_LoopSurvives == loop.pc # "panicked"

\* C16: after a pull carrying IllegalPushRequest was applied, push_pull has
\* returned FailedAndAbort and the datatype is Disabled: it needs no push and
\* accepts no write.
C16_AbortDisables ==
    \A c \in Clients :
        (/\ wire[c].pulled # None
         /\ wire[c].pulled.error # None
         /\ wire[c].pulled.error.kind = "IllegalPushRequest")
            => /\ wire[c].result = "FailedAndAbort"
               /\ mutable[c].state = "Disabled"
               /\ ~need_push(mutable[c])
               /\ ~check_writable(mutable[c], attr[c])

\* C17: transaction bodies run one after another or interleaved on one
\* counter are isolated: the transaction a commit has just enqueued holds as
\* many operations as the body that committed it executed, and whenever no
\* transaction is open the value is the sum of the deltas of the committed
\* transactions (a rollback took away the aborted operations only).
C17_Isolation ==
    \A c \in Clients :
        /\ user[c].last = "committed"
               => Len(mutable[c].push_buffer.transaction[Len(mutable[c].push_buffer.transaction)].operations)
                      = user[c].own
        /\ (user[c].alive /\ user[c].last \in {"committed", "rollback"})
               => mutable[c].crdt = SumTxDelta(mutable[c].push_buffer.transaction)

\* the last call found its key in the registry
LastOnPresentKey == manager.last # None /\ manager.last.before[manager.last.key] # None

\* C18: a request on a key that is already in the registry fails with
\* FailedToSubscribeOrCreateDatatype; only a request on an absent key
\* constructs and inserts a datatype.
C18_PresentKeyFails ==
    manager.last # None =>
        IF manager.last.before[manager.last.key] # None
        THEN /\ manager.last.res = "FailedToSubscribeOrCreateDatatype"
             /\ manager.last.after = manager.last.before
        ELSE manager.last.res = "Ok" => manager.last.after[manager.last.key] = manager.last.dt

\* C18 as the code has it: a request on a present key fails exactly when the
\* type or the state asked for differs from the existing datatype's, and never
\* constructs one; a request on an absent key constructs and inserts a Counter
\* under that key alone, and inserts nothing for a type that has no constructor.
C18_PresentKeyFailsOnMismatch ==
    manager.last # None =>
        LET l == manager.last
            old == l.before[l.key] IN
        /\ \A k \in Keys \ {l.key} : l.after[k] = l.before[k]
        /\ IF old # None
           THEN /\ l.after = l.before
                /\ (l.res = "FailedToSubscribeOrCreateDatatype")
                       = (old.type # l.type \/ old.state # l.state)
           ELSE IF l.type = "Counter"
                THEN /\ l.res = "Ok"
                     /\ l.after[l.key] = l.dt
                     /\ l.dt.state = l.state /\ l.dt.type = l.type
                     /\ \A k \in Keys : l.before[k] # None => l.before[k].core # l.dt.core
                ELSE l.res # "Ok" /\ l.after = l.before

\* a request on a present key that asked for another state than the existing
\* datatype has was refused, after an earlier request constructed the datatype
C18_Witness ==
    /\ LastOnPresentKey
    /\ manager.last.res = "FailedToSubscribeOrCreateDatatype"
    /\ manager.last.type = manager.last.before[manager.last.key].type
    /\ manager.cores = 2

\* C19: at most one datatype per key: a request on a present key with the type
\* and the state the existing datatype has now returns that same datatype,
\* any other request on a present key fails, and both leave the registry and
\* the datatype as they were; the datatype under a key is never replaced.
C19_OnePerKey ==
    /\ [](LastOnPresentKey =>
            LET l == manager.last
                old == l.before[l.key] IN
            /\ l.after = l.before
            /\ IF old.type = l.type /\ old.state = l.state
               THEN l.res = "Ok" /\ l.dt = old
               ELSE l.res = "FailedToSubscribeOrCreateDatatype" /\ l.dt = None)
    /\ [][\A k \in Keys : manager.datatypes[k] # None =>
               /\ manager'.datatypes[k] # None
               /\ manager'.datatypes[k].core = manager.datatypes[k].core]_vars
    /\ [](\A j, k \in Keys :
            (j # k /\ manager.datatypes[j] # None /\ manager.datatypes[k] # None)
                => manager.datatypes[j].core # manager.datatypes[k].core)

\* a second request for a key with the type and state of the datatype under
\* it was answered with that datatype, while another key holds its own
C19_Witness ==
    /\ LastOnPresentKey
    /\ manager.last.res = "Ok"
    /\ manager.last.dt = manager.last.before[manager.last.key]
    /\ manager.last.dt = manager.datatypes[manager.last.key]
    /\ manager.cores = 2

\* C20: enque succeeds exactly when the buffer is empty or the transaction's
\* cseq follows last_cseq, and the transaction still fits the memory limit; it
\* then appends the transaction, sets last_cseq, sets first_cseq if it was 0
\* and adds the size. Otherwise it answers NonSequentialCseq (checked first)
\* or ExceedMaxMemSize and leaves the buffer as it was; mem_size never
\* exceeds the limit.
C20_Enqueue ==
    /\ pbuf.mem_size <= MaxMemSizeOfPushBuffer
    /\ (pbout # None /\ pbout.call = "enque") =>
           LET b == pbout.before
               tx == pbout.txs[1]
               seq_ok == b.transaction = <<>> \/ tx.cseq = b.last_cseq + 1
               mem_ok == b.mem_size + size(tx) <= MaxMemSizeOfPushBuffer IN
           IF seq_ok /\ mem_ok
           THEN /\ pbout.res = "Ok"
                /\ pbuf.transaction = Append(b.transaction, tx)
                /\ pbuf.last_cseq = tx.cseq
                /\ pbuf.first_cseq = (IF b.first_cseq = 0 THEN tx.cseq ELSE b.first_cseq)
                /\ pbuf.mem_size = b.mem_size + size(tx)
           ELSE /\ pbout.res = (IF seq_ok THEN "ExceedMaxMemSize" ELSE "NonSequentialCseq")
                /\ pbuf = b

\* a transaction in sequence was refused because the buffer is full
C20_Witness ==
    /\ pbout # None
    /\ pbout.call = "enque"
    /\ pbout.res = "ExceedMaxMemSize"
    /\ pbout.txs[1].cseq = pbuf.last_cseq + 1
    /\ pbuf.mem_size > 0

\* the last call on the push buffer was get_after
LastGetAfter == pbout # None /\ pbout.call = "get_after"

\* C21: for first_cseq <= cseq <= last_cseq, get_after(cseq, cap) answers Ok
\* with the transactions of cseq, cseq + 1, ... in order, the longest such run
\* whose cumulative size is at most cap, and leaves the buffer as it was.
C21_GetAfterRun ==
    (LastGetAfter /\ pbout.before.transaction # <<>>
        /\ pbout.before.first_cseq <= pbout.cseq /\ pbout.cseq <= pbout.before.last_cseq) =>
        LET b == pbout.before
            n == Len(pbout.txs)
            from == pbout.cseq - b.first_cseq IN
        /\ pbout.res = "Ok"
        /\ pbuf = b
        /\ from + n <= Len(b.transaction)
        /\ \A i \in 1..n : pbout.txs[i] = b.transaction[from + i] /\ pbout.txs[i].cseq = (pbout.cseq + i) - 1
        /\ SumSize(pbout.txs) <= pbout.max_mem_size
        /\ from + n < Len(b.transaction)
               => SumSize(pbout.txs) + size(b.transaction[from + n + 1]) > pbout.max_mem_size

\* a get_after from the middle of the buffer was cut short by the cap
C21_Witness ==
    /\ LastGetAfter
    /\ pbout.res = "Ok"
    /\ pbout.cseq > pbout.before.first_cseq
    /\ Len(pbout.txs) = 1
    /\ pbout.cseq + 1 = pbout.before.last_cseq

\* C22: get_after with a cseq beyond last_cseq (any cseq >= 1 on an empty
\* buffer included) answers Ok with no transactions, so that a pack can be
\* built when nothing is left to push.
C22_GetAfterBeyondIsEmpty ==
    (LastGetAfter /\ pbout.cseq >= 1 /\ pbout.cseq > pbout.before.last_cseq) =>
        pbout.res = "Ok" /\ pbout.txs = <<>>

C24_Deque ==
    (pbout # None /\ pbout.call = "deque") =>
        LET b == pbout.before
            u == pbout.upto_cseq IN
        /\ pbout.txs \o pbuf.transaction = b.transaction
        /\ \A i \in 1..Len(pbout.txs) : pbout.txs[i].cseq <= u
        /\ \A i \in 1..Len(pbuf.transaction) : pbuf.transaction[i].cseq > u
        /\ pbuf.mem_size = b.mem_size - SumSize(pbout.txs)
        /\ u < b.first_cseq => pbuf = b /\ pbout.txs = <<>>
        /\ u >= b.last_cseq => pbuf = NewPushBuffer
        /\ (b.first_cseq <= u /\ u < b.last_cseq)
               => pbuf.first_cseq = u + 1 /\ pbuf.last_cseq = b.last_cseq

\* a deque up to a cseq in the middle took the front and kept the rest
C24_Witness ==
    /\ pbout # None
    /\ pbout.call = "deque"
    /\ Len(pbout.txs) = 2
    /\ Len(pbuf.transaction) = 1
    /\ pbuf.first_cseq = pbout.upto_cseq + 1

\* the pairs (old state, pulled state) of the match that subscribe
SubscribingPair(old_state, pulled_state) ==
    \/ old_state = "DueToCreate" /\ pulled_state = "DueToCreate"
    \/ old_state = "DueToSubscribe" /\ pulled_state = "DueToSubscribe"
    \/ old_state = "DueToSubscribeOrCreate" /\ pulled_state \in {"DueToCreate", "DueToSubscribe"}

\* C25: a pull changes the lifecycle state only to Subscribed and only for
\* the pairs DueToCreate/DueToCreate, DueToSubscribe/DueToSubscribe and
\* DueToSubscribeOrCreate/DueToCreate or DueToSubscribe; a pull of such a pair
\* that passes the error stage does subscribe, and every other pair, any pull
\* in Subscribed, DueToUnsubscribe, DueToDelete or Disabled included, leaves
\* the state as it was.
C25_OnlyToSubscribed ==
    [][LET old_state == mutable["c1"].state
           pulled == wire'["c1"].pulled IN
       /\ mutable'["c1"].state # old_state
              => mutable'["c1"].state = "Subscribed" /\ SubscribingPair(old_state, pulled.state)
       /\ (wire'["c1"].result = "Ok" /\ SubscribingPair(old_state, pulled.state))
              => mutable'["c1"].state = "Subscribed"
       /\ ~SubscribingPair(old_state, pulled.state) => mutable'["c1"].state = old_state]_vars

\* a datatype built as DueToSubscribeOrCreate was subscribed by the pull of a
\* pack in state DueToSubscribe
C25_Witness ==
    /\ mutable["c1"].rollback.state = "DueToSubscribeOrCreate"
    /\ mutable["c1"].state = "Subscribed"
    /\ wire["c1"].pulled # None
    /\ wire["c1"].pulled.state = "DueToSubscribe"
    /\ wire["c1"].result = "Ok"

\* C26: a pull carrying IllegalPushRequest makes apply return FailedAndAbort
\* before any other stage: lifecycle state, checkpoint, CRDT value, push
\* buffer and everything else of the datatype are as before the pull.
C26_AbortChangesNothing ==
    [][(/\ wire'["c1"] # wire["c1"]
        /\ wire'["c1"].pulled # None
        /\ wire'["c1"].pulled.error # None
        /\ wire'["c1"].pulled.error.kind = "IllegalPushRequest")
           => /\ wire'["c1"].result = "FailedAndAbort"
              /\ mutable' = mutable]_vars

\* the pull was refused on a datatype with a committed write in its buffer,
\* a value and a checkpoint that an earlier pull had advanced
C26_Witness ==
    /\ wire["c1"].pulled # None
    /\ wire["c1"].pulled.error # None
    /\ wire["c1"].pulled.error.kind = "IllegalPushRequest"
    /\ wire["c1"].result = "FailedAndAbort"
    /\ mutable["c1"].crdt # 0
    /\ mutable["c1"].push_buffer.transaction # <<>>
    /\ mutable["c1"].checkpoint.sseq > 0
    /\ mutable["c1"].state = "DueToCreate"

C28_FailedOperationUndone ==
    [][(user'[WriteClient].last = "FailedToExecuteOperation")
           => mutable'[WriteClient] = mutable[WriteClient]]_vars

\* an operation was rejected inside a transaction that holds an increase; the
\* transaction is still open with that increase alone
C28_Witness ==
    /\ user[WriteClient].last = "FailedToExecuteOperation"
    /\ mutable[WriteClient].transaction # None
    /\ Len(mutable[WriteClient].transaction.operations) = 1
    /\ mutable[WriteClient].crdt = 1
    /\ mutable[WriteClient].op_id = [cseq |-> 1, lamport |-> 2]

\* the server's sseq counts the entries of its history
SseqCountsHistory == server.sseq = Len(server.history)

\* C29: the server's sseq equals the number of entries of the history in
\* every server state, grows by one with each appended transaction and never
\* decreases, and each stored transaction carries the sseq the server gave
\* it: the i-th entry of the history has sseq i.
C29_SseqCountsCommits ==
    /\ [](SseqCountsHistory)
    /\ [][/\ server'.sseq >= server.sseq
          /\ server'.sseq - server.sseq = Len(server'.history) - Len(server.history)
          /\ SubSeq(server'.history, 1, Len(server.history)) = server.history]_vars
    /\ [](\A i \in 1..Len(server.history) : server.history[i].sseq = i)

\* C30: a DueToCreate push against a record already created under another
\* duid is answered with FailedToCreate("already exist") and checkpoint
\* (0, 0), and the server record (created, duid, creator, sseq, history, the
\* per-client cseq map) is as before, also when the pack carries new
\* transactions.
C30_AlreadyExists ==
    (/\ lastPush # None
     /\ lastPush.state = "DueToCreate"
     /\ lastPull.before.created
     /\ lastPull.before.duid # lastPush.duid)
        => /\ lastPull.err = "none"
           /\ lastPull.pulled.error = ServerError("FailedToCreate", "already exist")
           /\ lastPull.pulled.checkpoint = NewCheckPoint(0, 0)
           /\ lastPull.pulled.transactions = <<>>
           /\ server = lastPull.before

\* a writable client pushed two transactions the server has not seen, as
\* DueToCreate under another duid than the one the record was created with
C30_Witness ==
    /\ lastPush # None
    /\ lastPush.state = "DueToCreate"
    /\ ~lastPush.is_readonly
    /\ Len(lastPush.transactions) = 2
    /\ lastPull.before.created
    /\ lastPull.before.duid # lastPush.duid
    /\ lastPull.before.history = <<>>
    /\ lastPull.pulled.error # None

\* C31: process_due_to_subscribe never changes the server's history, sseq,
\* duid, creator or created flag, and refuses in this order: a record not
\* created with FailedToSubscribe, a type mismatch with FailedToSubscribe, a
\* pack with transactions with IllegalPushRequest; only otherwise does the
\* pull carry the server's duid and the creator's snapshot.
C31_SubscribeOrder ==
    (lastPush # None /\ lastPush.state = "DueToSubscribe") =>
        LET b == lastPull.before
            refused == ~b.created \/ b.type # lastPush.type \/ lastPush.transactions # <<>> IN
        /\ server = b
        /\ lastPull.err = "none"
        /\ IF ~b.created
           THEN lastPull.pulled.error = ServerError("FailedToSubscribe", "not exists")
           ELSE IF b.type # lastPush.type
           THEN lastPull.pulled.error = ServerError("FailedToSubscribe", "mismatched types")
           ELSE IF lastPush.transactions # <<>>
           THEN lastPull.pulled.error.kind = "IllegalPushRequest"
           ELSE /\ lastPull.pulled.error = None
                /\ lastPull.pulled.duid = b.duid
                /\ lastPull.pulled.snapshot_transaction
                       = get_subscribe_snapshot(b.creator, mutable[b.creator])
        /\ refused => /\ lastPull.pulled.snapshot_transaction = None
                      /\ lastPull.pulled.duid = lastPush.duid

\* a subscribe of another type that carries transactions was refused for its
\* type on a created record that holds history
C31_Witness ==
    /\ lastPush # None
    /\ lastPush.state = "DueToSubscribe"
    /\ lastPush.type = "Map"
    /\ lastPush.transactions # <<>>
    /\ lastPull.before.created
    /\ lastPull.before.history # <<>>
    /\ lastPull.pulled.error = ServerError("FailedToSubscribe", "mismatched types")

\* the last pack handed to the server was a subscribe that was served a snapshot
SnapshotServed ==
    /\ lastPush # None
    /\ lastPush.state = "DueToSubscribe"
    /\ lastPull.err = "none"
    /\ lastPull.pulled.snapshot_transaction # None

\* C32: the snapshot transaction served to a subscriber carries the sseq the
\* server has when the subscribe is processed, in every interleaving with the
\* creator's push_pull, also between the server storing the creator's push
\* and the creator applying the pull.
C32_SnapshotSseq ==
    SnapshotServed => lastPull.pulled.snapshot_transaction.sseq = lastPull.before.sseq

\* C37: the snapshot served to a subscriber reflects only transactions stored
\* in the server history: its value is the sum of the deltas of the history
\* at the time of the subscribe, without the creator's committed but
\* unpushed transactions and without the operations of its open transaction.
C37_SnapshotOnlyStored ==
    SnapshotServed =>
        lastPull.pulled.snapshot_transaction.operations[1].value
            = SumTxDelta(lastPull.before.history)

\* C33: guaranteed events are handled in posting order and Stop ends the
\* loop: when the Stop is acknowledged the loop has started a push_pull round
\* for every guaranteed PushTransaction posted before it, the
\* acknowledgement is sent once, and after it the loop starts no push_pull
\* round and takes no event from its channels.
C33_StopEndsLoop ==
    /\ [](loop.acks >= 1 => loop.acks = 1 /\ loop.pushes = writer.at_stop /\ loop.pc = "stopped")
    /\ [][loop.acks >= 1 =>
              /\ loop'.pc = loop.pc /\ loop'.pushes = loop.pushes /\ loop'.acks = loop.acks
              /\ wire' = wire /\ mutable'[RtClient].checkpoint = mutable[RtClient].checkpoint
              /\ Len(loop'.unbounded) >= Len(loop.unbounded)]_vars

\* the Stop posted after two guaranteed events was acknowledged after two
\* rounds, and an event posted afterwards stays in the channel
C33_Witness ==
    /\ loop.acks = 1
    /\ loop.pushes = 2
    /\ writer.at_stop = 2
    /\ writer.returned = 1
    /\ loop.unbounded # <<>>

\* C40: send_stop always returns: the caller is never left waiting for the
\* acknowledgement of a Stop while the loop has left its loop, after an
\* earlier Stop or after a failure inside a push_pull round (no step of the
\* program sends that acknowledgement any more).
C40_StopReturns ==
    ~(/\ writer.pc = "stopping"
      /\ loop.pc \in {"stopped", "panicked"}
      /\ loop.acks = writer.returned)

\* C34: the lifecycle state never moves backwards: no step takes a datatype
\* that is Subscribed back to DueToCreate, DueToSubscribe or
\* DueToSubscribeOrCreate; a rollback keeps the state the last pull reached.
C34_NeverBackwards ==
    [][\A c \in Clients :
          mutable[c].state = "Subscribed" =>
              mutable'[c].state \notin {"DueToCreate", "DueToSubscribe", "DueToSubscribeOrCreate"}]_vars

\* the highest cseq of a client's transactions in the server history, 0 if none
StoredCseq(c) ==
    LET own == {server.history[i].cseq : i \in {j \in DOMAIN server.history : server.history[j].cuid = c}}
    IN IF own = {} THEN 0 ELSE CHOOSE n \in own : \A k \in own : k <= n

\* C35: acknowledged implies stored: a client's checkpoint.cseq is at most
\* the highest cseq of that client in the server history (0 if none), and
\* checkpoint.cseq <= push_buffer.last_cseq <= op_id.cseq on the client.
C35_AckedIsStored ==
    \A c \in Clients :
        /\ mutable[c].checkpoint.cseq <= StoredCseq(c)
        /\ mutable[c].checkpoint.cseq <= mutable[c].push_buffer.last_cseq
        /\ mutable[c].push_buffer.last_cseq <= mutable[c].op_id.cseq

\* C36: push progress: whenever the push buffer holds a transaction with
\* cseq > checkpoint.cseq, the pack built by push_pull contains at least the
\* first such transaction, also when that transaction is larger than the
\* transmission cap of one pack.
C36_PushProgress ==
    \A c \in Clients :
        (wire[c].pc = "pushed" /\ wire[c].base > wire[c].cp.cseq) =>
            /\ wire[c].pushing.transactions # <<>>
            /\ Head(wire[c].pushing.transactions).cseq = wire[c].cp.cseq + 1

\* the record keeps its duid, its creator and its created flag once created
CreatorFixed ==
    server.created =>
        /\ server'.created
        /\ server'.duid = server.duid
        /\ server'.creator = server.creator

\* a DueToCreate push under another duid than that of the created record is
\* answered with FailedToCreate and leaves the history as it was
LaterPushRefused ==
    (/\ lastPush # None
     /\ lastPull.before.created
     /\ lastPull.before.duid # lastPush.duid)
        => /\ lastPull.pulled.error # None
           /\ lastPull.pulled.error.kind = "FailedToCreate"
           /\ server.history = lastPull.before.history
           /\ server.sseq = lastPull.before.sseq

\* C38 as stated: single creator: when several clients push DueToCreate for
\* one key under different duids, the first processed push is accepted (so
\* the record is created as soon as any push has been processed), every
\* later one is answered with FailedToCreate and adds nothing to the
\* history, and once the record is created its duid and creator never change.
C38_FirstPushCreates ==
    /\ [](lastPush # None => server.created)
    /\ []LaterPushRefused
    /\ [][CreatorFixed]_vars

\* C38 amended: the first processed push of a client that is not readonly
\* is accepted and makes that client the creator; a push of a readonly
\* client is answered with FailedToCreate and creates nothing, so the record
\* stays uncreated; every push under another duid after the creation is
\* answered with FailedToCreate and adds nothing to the history, and once
\* the record is created its duid and creator never change.
C38_SingleCreator ==
    /\ []((lastPush # None /\ ~lastPull.before.created) =>
             IF lastPush.is_readonly
             THEN /\ lastPull.pulled.error # None
                  /\ lastPull.pulled.error.kind = "FailedToCreate"
                  /\ server = lastPull.before
             ELSE /\ lastPull.pulled.error = None
                  /\ server.created
                  /\ server.creator = lastPush.cuid
                  /\ server.duid = lastPush.duid)
    /\ []LaterPushRefused
    /\ [][CreatorFixed]_vars

\* the record was created by c1, which stored a transaction, and a later
\* push of c2 under its own duid, carrying two transactions, was refused
C38_Witness ==
    /\ lastPush # None
    /\ lastPush.cuid = "c2"
    /\ Len(lastPush.transactions) = 2
    /\ lastPull.before.created
    /\ lastPull.before.creator = "c1"
    /\ lastPull.before.history # <<>>
    /\ lastPull.pulled.error # None

\* the threads of S, and those that wait for no lock or for a lock held by
\* threads of S only (a user thread that holds a lock waits for none)
CanRun(S) == {c \in Clients : WireWants(c) = "none" \/ \A h \in Clients : WireWants(c) \in WireHolds(h) => h \in S}

\* C39: no deadlock between the per-datatype lock and the server lock:
\* push_pull holds no datatype lock while it calls push_and_pull, and in
\* every reachable state every thread that waits for a lock waits for one
\* that is free, held by a user thread, or held by a thread that can itself
\* go on: the subscriber's push_and_pull, the creator's push_pull and the
\* user writes on both datatypes never wait for each other in a cycle.
C39_NoDeadlock ==
    /\ \A c \in Clients : wire[c].pc \in {"pushed", "in_server", "pulled"} =>
                               WireHolds(c) \subseteq {"server"}
    /\ CanRun(CanRun({})) = Clients

\* the subscriber holds the server lock and waits for the creator's datatype
\* lock, which the creator's user thread holds, while the creator's
\* push_pull has built its pack and waits for the server lock
C39_Witness ==
    /\ wire["c2"].pc = "in_call"
    /\ NeedsSnapshot("c2")
    /\ user["c1"].holds
    /\ wire["c1"].pc = "pushed"

=============================================================================
